---- MODULE Spec2Model ----
(***************************************************************************)
(* hello-zero-solid: the multiplayer canvas (drag lock on canvas_square)   *)
(* and the debounced text editors, modelled from                           *)
(*   src/app/MultiplayerCanvas.tsx      (the canvas component)             *)
(*   src/app/TrueCollaborativeInput.tsx (shared-text editor + mutators)    *)
(*   src/app/CollaborativeEditor.tsx    (per-contributor editor)           *)
(*   src/unnamed/part_000               (CollaborativeInput, zone editor)  *)
(*                                                                         *)
(* zero().mutate(m) runs the mutator m as one transaction against the      *)
(* canvas_square table; a mutator that throws rolls the transaction back.  *)
(* Each client renders from its own replica of the table (view), which is  *)
(* updated optimistically by the client's own mutations and refreshed      *)
(* from the server by the subscription (SyncView), so a replica may lag.   *)
(*                                                                         *)
(* Lengths are in half pixels where the browser hands out fractional       *)
(* values (mouse coordinates, drag.offset, drag.position); the table       *)
(* stores whole pixels, Math.round converts.                               *)
(***************************************************************************)
EXTENDS Integers, Sequences, FiniteSets, TLC

----------------------------------------------------------------------------
(* Bounds *)

MaxSquares == 1

\* input events per editor instance
MaxInputs == 2

\* mutations of the text tables (each reads Date.now() once)
MaxClock == 4

----------------------------------------------------------------------------
(* Program constants and input domains *)

SQUARE_SIZE == 80

Users == {"u1", "u2"}

Anon == "anon"

Clients == {"c1", "c2"}

\* draggedBy = null
NULL == "null"

\* a row that is not in the table
Absent == [absent |-> TRUE]

\* the context of a client that is not logged in
NoCtx == [anon |-> TRUE]

\* drag.id = null
NoId == 0

NoTx == [name |-> "none"]

SquareIds == 1..MaxSquares

\* the components a client can show
EditorPages == {"CollaborativeEditor", "TrueCollaborativeInput", "CollaborativeInput"}

\* CollaborativeEditor
MIN_CHARS_TO_SYNC == 1

\* texts are sequences of characters; what an input event can leave in a textarea
Texts == { <<>>, <<"a">>, <<"a", "b">> }

\* CollaborativeInput: "  |  "
SEPARATOR == <<" ", " ", "|", " ", " ">>

\* the characters a key press can insert in the CollaborativeInput textarea
Keys == {"a", " "}

\* the documents; the components show props.documentId
DocIds == {"d1", "d2"}

ThisDoc == "d1"

\* the ids a caller can pass for a contribution: those of the stored rows and
\* those generateId() hands out
RowIds == 1..(MaxInputs + 2)

\* the contribution table when the clients start: empty, or with rows that
\* earlier sessions have written
StoredContributions ==
    { {},
      { [id |-> 2, documentId |-> "d1", userID |-> "u2", content |-> <<"b">>, updatedAt |-> 0, joinedAt |-> 0] },
      { [id |-> 1, documentId |-> "d1", userID |-> "u1", content |-> <<"a">>, updatedAt |-> 0, joinedAt |-> -1],
        [id |-> 2, documentId |-> "d1", userID |-> "u2", content |-> <<" ">>, updatedAt |-> 0, joinedAt |-> 0] },
      { [id |-> 1, documentId |-> "d1", userID |-> "u1", content |-> <<"a">>, updatedAt |-> 0, joinedAt |-> 0],
        [id |-> 2, documentId |-> "d1", userID |-> "u2", content |-> <<"b">>, updatedAt |-> 0, joinedAt |-> -1] } }

\* a query that has not delivered a row
NotLoaded == [notLoaded |-> TRUE]

\* debounceTimer = undefined
NoTimer == 0

\* no select or keydown event has been handled
NoEvent == [type |-> "none"]

\* the handles setTimeout returns
TimerIds == 1..MaxInputs

\* caret positions in a textarea
Carets == 0..(2 * MaxInputs + 5)

\* who is logged in at which client: two actors, one actor in two sessions,
\* an actor next to a client that is not logged in
Logins == { [c \in Clients |-> IF c = "c1" THEN "u1" ELSE u] : u \in {"u1", "u2", Anon} }

\* Math.round(50 + Math.random() * 400), Math.round(50 + Math.random() * 200)
CreatePoints == { [x |-> 50, y |-> 50] }

\* e.clientX - rect.left, e.clientY - rect.top (half pixels)
MouseOffsets == { [x |-> 21, y |-> 21] }

\* e.clientX, e.clientY (half pixels)
MousePoints == { [x |-> -10, y |-> -10], [x |-> 52, y |-> 1000] }

\* canvasRef.getBoundingClientRect() (half pixels); the second is smaller than a square
CanvasRects == { [left |-> 0, top |-> 0, width |-> 200, height |-> 180],
                 [left |-> 0, top |-> 0, width |-> 100, height |-> 100] }

\* the x, y arguments of a canvasSquare.updatePosition or endDrag call
UpdatePoints == { [x |-> 7, y |-> 9], [x |-> 16, y |-> 10] }

Max(a, b) == IF a >= b THEN a ELSE b

Min(a, b) == IF a <= b THEN a ELSE b

\* Math.round on a value given in half pixels: halves round up
Round(h) == (h + 1) \div 2

\* a whole-pixel value as half pixels
Px(v) == 2 * v

----------------------------------------------------------------------------
(* State *)

VARIABLES
    squares,    \* the canvas_square table: id -> row or Absent
    view,       \* per client: its replica of the table (useQuery forCanvas)
    drag,       \* per client: the drag store {id, offset, position}
    session,    \* per client: "mounted" or "ended"
    userOf,     \* per client: zero().userID
    nextId,     \* the next id generateId() hands out
    last,       \* the mutator transaction run by the last step, or NoTx
    page,       \* the component the clients show
    ce,         \* per client: CollaborativeEditor {localContent, initialized, debounceTimer}
    tc,         \* per client: TrueCollaborativeInput {value, selectionStart, selectionEnd,
                \*   lastKnownContent, initialized, sendContentTimer}
    ci,         \* per client: CollaborativeInput {myText, initialized, debounceTimer,
                \*   value, selectionStart, selectionEnd}
    timers,     \* the pending setTimeout callbacks: {id, client, content}
    timerSeq,   \* per client: the last timer id setTimeout returned
    contributions,  \* the contribution table (one document): a set of rows
    contribView,    \* per client: its replica of the contribution table
    sharedDoc,      \* the shared_document row: {content, updatedAt}
    sharedView,     \* per client: its replica of the shared_document row, or NotLoaded
    clock,      \* Date.now()
    nextRowId,  \* the next id generateId() hands out for a contribution
    captured,   \* per client: the payloads passed to the debounced sync, in order
    commits,    \* per client: the payloads of the mutations the debounced sync submitted
    message,    \* the message table: a set of rows
    collaborative_document, \* the collaborative_document table: a set of rows
    user_cursor \* the user_cursor table: a set of rows

\* the tables neither the canvas nor the editors touch
otherTables == <<message, collaborative_document, user_cursor>>

canvasVars == <<squares, view, drag, nextId, last, otherTables>>

editorVars == <<page, ce, tc, ci, timers, timerSeq, contributions, contribView,
                sharedDoc, sharedView, clock, nextRowId, captured, commits, otherTables>>

vars == <<squares, view, drag, session, userOf, nextId, last, page, ce, tc, ci,
          timers, timerSeq, contributions, contribView, sharedDoc, sharedView,
          clock, nextRowId, captured, commits, otherTables>>

\* the context a client's mutations run with
ctxOf(c) == IF userOf[c] = Anon THEN NoCtx ELSE [userID |-> userOf[c]]

\* the result of a mutator: the table after it, how it ended, the number of
\* tx.mutate.* writes it issued
Returned(tbl) == [table |-> tbl, outcome |-> "return", error |-> "", writes |-> 0]

Thrown(tbl, msg) == [table |-> tbl, outcome |-> "throw", error |-> msg, writes |-> 0]

Written(tbl) == [table |-> tbl, outcome |-> "ok", error |-> "", writes |-> 1]

----------------------------------------------------------------------------
(* Mutators: src/app/TrueCollaborativeInput.tsx 598-735 *)

\* create that hands the new square to its creator already locked
M_create_lockedByCreator(tbl, ctx, args) ==
    IF ctx = NoCtx THEN Thrown(tbl, "Must be logged in")
    ELSE Written([tbl EXCEPT ![args.id] =
            [ownerID |-> ctx.userID, x |-> args.x, y |-> args.y,
             width |-> 80, height |-> 80, draggedBy |-> ctx.userID]])

canvasSquare_create(tbl, ctx, args) ==
    IF ctx = NoCtx THEN Thrown(tbl, "Must be logged in")
    ELSE Written([tbl EXCEPT ![args.id] =
            [ownerID |-> ctx.userID, x |-> args.x, y |-> args.y,
             width |-> 80, height |-> 80, draggedBy |-> NULL]])

\* startDrag without the check of the current holder
M_startDrag_noHolderCheck(tbl, ctx, args) ==
    IF ctx = NoCtx THEN Thrown(tbl, "Must be logged in")
    ELSE IF tbl[args.id] = Absent THEN Returned(tbl)
    ELSE Written([tbl EXCEPT ![args.id].draggedBy = ctx.userID])

canvasSquare_startDrag(tbl, ctx, args) ==
    IF ctx = NoCtx THEN Thrown(tbl, "Must be logged in")
    ELSE IF tbl[args.id] = Absent THEN Returned(tbl)
    ELSE IF tbl[args.id].draggedBy # NULL /\ tbl[args.id].draggedBy # ctx.userID
         THEN Thrown(tbl, "Square is being dragged by another user")
    ELSE Written([tbl EXCEPT ![args.id].draggedBy = ctx.userID])

\* updatePosition without the check of the current holder
M_updatePosition_anyCaller(tbl, ctx, args) ==
    IF ctx = NoCtx THEN Thrown(tbl, "Must be logged in")
    ELSE IF tbl[args.id] = Absent THEN Returned(tbl)
    ELSE Written([tbl EXCEPT ![args.id].x = args.x, ![args.id].y = args.y])

\* updatePosition 652-679
canvasSquare_updatePosition(tbl, ctx, args) ==
    IF ctx = NoCtx THEN Thrown(tbl, "Must be logged in")
    ELSE IF tbl[args.id] = Absent THEN Returned(tbl)
    ELSE IF tbl[args.id].draggedBy # ctx.userID THEN Returned(tbl)
    ELSE Written([tbl EXCEPT ![args.id].x = args.x, ![args.id].y = args.y])

\* endDrag that clears the lock and forgets the final position
M_endDrag_lockOnly(tbl, ctx, args) ==
    IF ctx = NoCtx THEN Thrown(tbl, "Must be logged in")
    ELSE IF tbl[args.id] = Absent THEN Returned(tbl)
    ELSE IF tbl[args.id].draggedBy # ctx.userID THEN Returned(tbl)
    ELSE Written([tbl EXCEPT ![args.id].draggedBy = NULL])

\* endDrag without the check of the current holder
M_endDrag_anyCaller(tbl, ctx, args) ==
    IF ctx = NoCtx THEN Thrown(tbl, "Must be logged in")
    ELSE IF tbl[args.id] = Absent THEN Returned(tbl)
    ELSE Written([tbl EXCEPT ![args.id].x = args.x, ![args.id].y = args.y,
                             ![args.id].draggedBy = NULL])

\* endDrag that fails on a square that is not in the table
M_endDrag_throwsOnMissing(tbl, ctx, args) ==
    IF ctx = NoCtx THEN Thrown(tbl, "Must be logged in")
    ELSE IF tbl[args.id] = Absent THEN Thrown(tbl, "Square not found")
    ELSE IF tbl[args.id].draggedBy # ctx.userID THEN Returned(tbl)
    ELSE Written([tbl EXCEPT ![args.id].x = args.x, ![args.id].y = args.y,
                             ![args.id].draggedBy = NULL])

canvasSquare_endDrag(tbl, ctx, args) ==
    IF ctx = NoCtx THEN Thrown(tbl, "Must be logged in")
    ELSE IF tbl[args.id] = Absent THEN Returned(tbl)
    ELSE IF tbl[args.id].draggedBy # ctx.userID THEN Returned(tbl)
    ELSE Written([tbl EXCEPT ![args.id].x = args.x, ![args.id].y = args.y,
                             ![args.id].draggedBy = NULL])

\* delete without the check of the owner
M_delete_anyCaller(tbl, ctx, args) ==
    IF ctx = NoCtx THEN Thrown(tbl, "Must be logged in")
    ELSE IF tbl[args.id] = Absent THEN Returned(tbl)
    ELSE Written([tbl EXCEPT ![args.id] = Absent])

canvasSquare_delete(tbl, ctx, args) ==
    IF ctx = NoCtx THEN Thrown(tbl, "Must be logged in")
    ELSE IF tbl[args.id] = Absent THEN Returned(tbl)
    ELSE IF tbl[args.id].ownerID # ctx.userID
         THEN Thrown(tbl, "Only the owner can delete a square")
    ELSE Written([tbl EXCEPT ![args.id] = Absent])

runMutator(name, tbl, ctx, args) ==
    CASE name = "create" -> canvasSquare_create(tbl, ctx, args)
      [] name = "startDrag" -> canvasSquare_startDrag(tbl, ctx, args)
      [] name = "updatePosition" -> canvasSquare_updatePosition(tbl, ctx, args)
      [] name = "endDrag" -> canvasSquare_endDrag(tbl, ctx, args)
      [] name = "delete" -> canvasSquare_delete(tbl, ctx, args)

\* the server runs a mutator as one transaction on the table
transact(c, name, args) ==
    LET res == runMutator(name, squares, ctxOf(c), args)
    IN  /\ squares' = res.table
        /\ last' = [name |-> name, client |-> c, args |-> args,
                    outcome |-> res.outcome,
                    error |-> res.error, writes |-> res.writes]

\* zero().mutate(m): the mutator runs on the client's replica (optimistic)
\* and as one transaction on the table
mutate(c, name, args) ==
    /\ transact(c, name, args)
    /\ view' = [view EXCEPT ![c] = runMutator(name, view[c], ctxOf(c), args).table]

----------------------------------------------------------------------------
(* The canvas component: src/app/MultiplayerCanvas.tsx *)

InitCanvas ==
    /\ squares = [s \in SquareIds |-> Absent]
    /\ view = [c \in Clients |-> [s \in SquareIds |-> Absent]]
    /\ drag = [c \in Clients |-> [id |-> NoId, offset |-> [x |-> 0, y |-> 0],
                                  position |-> [x |-> 0, y |-> 0]]]
    /\ userOf \in Logins
    /\ nextId = 1
    /\ last = NoTx

InitEditors ==
    /\ ce = [c \in Clients |-> [localContent |-> <<>>, initialized |-> FALSE,
                                debounceTimer |-> NoTimer]]
    /\ tc = [c \in Clients |-> [value |-> <<>>, selectionStart |-> 0, selectionEnd |-> 0,
                                lastKnownContent |-> <<>>, initialized |-> FALSE,
                                sendContentTimer |-> NoTimer]]
    /\ ci = [c \in Clients |-> [myText |-> <<>>, initialized |-> FALSE,
                                debounceTimer |-> NoTimer, value |-> <<>>,
                                selectionStart |-> 0, selectionEnd |-> 0,
                                event |-> NoEvent, eventSeq |-> 0]]
    /\ timers = {}
    /\ timerSeq = [c \in Clients |-> 0]
    /\ contributions \in StoredContributions
    /\ contribView = [c \in Clients |-> {}]
    /\ sharedDoc = [content |-> <<>>, updatedAt |-> 0]
    /\ sharedView = [c \in Clients |-> NotLoaded]
    /\ clock = 1
    /\ nextRowId = 3
    /\ captured = [c \in Clients |-> <<>>]
    /\ commits = [c \in Clients |-> <<>>]
    /\ message = {}
    /\ collaborative_document = {}
    /\ user_cursor = {}

Init ==
    /\ InitCanvas
    /\ InitEditors
    /\ contributions = {}
    /\ session = [c \in Clients |-> "mounted"]
    /\ page = "MultiplayerCanvas"

\* the subscription delivers the current table to a client
SyncView(c) ==
    /\ session[c] = "mounted"
    /\ view[c] # squares
    /\ view' = [view EXCEPT ![c] = squares]
    /\ last' = NoTx
    /\ UNCHANGED <<squares, drag, session, userOf, nextId>>
    /\ UNCHANGED editorVars

addSquare(c, p) ==
    /\ session[c] = "mounted"
    /\ nextId \in SquareIds
    /\ IF userOf[c] = Anon
       THEN /\ last' = NoTx
            /\ UNCHANGED <<squares, view, nextId>>
       ELSE /\ mutate(c, "create", [id |-> nextId, x |-> p.x, y |-> p.y])
            /\ nextId' = nextId + 1
    /\ UNCHANGED <<drag, session, userOf>>
    /\ UNCHANGED editorVars

\* mouse-down without the check of the lock
M_handleMouseDown_noLockCheck(c, s, off) ==
    /\ session[c] = "mounted"
    /\ view[c][s] # Absent
    /\ LET square == view[c][s] IN
       IF userOf[c] = Anon
       THEN /\ last' = NoTx
            /\ UNCHANGED <<squares, view, drag>>
       ELSE /\ drag' = [drag EXCEPT ![c] =
                    [id |-> s, offset |-> off,
                     position |-> [x |-> Px(square.x), y |-> Px(square.y)]]]
            /\ mutate(c, "startDrag", [id |-> s])
    /\ UNCHANGED <<session, userOf, nextId>>
    /\ UNCHANGED editorVars

\* handleMouseDown 112-134
handleMouseDown(c, s, off) ==
    /\ session[c] = "mounted"
    /\ view[c][s] # Absent
    /\ LET square == view[c][s] IN
       IF userOf[c] = Anon
       THEN /\ last' = NoTx
            /\ UNCHANGED <<squares, view, drag>>
       ELSE IF square.draggedBy # NULL /\ square.draggedBy # userOf[c]
       THEN /\ last' = NoTx
            /\ UNCHANGED <<squares, view, drag>>
       ELSE /\ drag' = [drag EXCEPT ![c] =
                    [id |-> s, offset |-> off,
                     position |-> [x |-> Px(square.x), y |-> Px(square.y)]]]
            /\ mutate(c, "startDrag", [id |-> s])
    /\ UNCHANGED <<session, userOf, nextId>>
    /\ UNCHANGED editorVars

\* the moved position without the clamp to the canvas
M_clampedPosition_noClamp(d, e, rect) ==
    [x |-> e.x - rect.left - d.offset.x, y |-> e.y - rect.top - d.offset.y]

\* handleMouseMove 145-151: the position the drag buffer d gets for a mouse
\* event e over a canvas with bounding rectangle rect
clampedPosition(d, e, rect) ==
    LET newX == e.x - rect.left - d.offset.x
        newY == e.y - rect.top - d.offset.y
        clampedX == Max(0, Min(newX, rect.width - Px(SQUARE_SIZE)))
        clampedY == Max(0, Min(newY, rect.height - Px(SQUARE_SIZE)))
    IN  [x |-> clampedX, y |-> clampedY]

handleMouseMove(c, e, rect) ==
    /\ session[c] = "mounted"
    /\ IF drag[c].id = NoId
       THEN UNCHANGED drag
       ELSE drag' = [drag EXCEPT ![c].position = clampedPosition(drag[c], e, rect)]
    /\ last' = NoTx
    /\ UNCHANGED <<squares, view, session, userOf, nextId>>
    /\ UNCHANGED editorVars

handleMouseUp(c) ==
    /\ session[c] = "mounted"
    /\ IF drag[c].id = NoId
       THEN /\ last' = NoTx
            /\ UNCHANGED <<squares, view, drag>>
       ELSE /\ mutate(c, "endDrag", [id |-> drag[c].id,
                                     x |-> Round(drag[c].position.x),
                                     y |-> Round(drag[c].position.y)])
            /\ drag' = [drag EXCEPT ![c].id = NoId]
    /\ UNCHANGED <<session, userOf, nextId>>
    /\ UNCHANGED editorVars

\* <Show when={() => owned() && !beingDragged()}>: the when prop is given a
\* function, which is always truthy, so the button is rendered on every square
deleteBtnShown(c, s) == view[c][s] # Absent

deleteSquare(c, s) ==
    /\ session[c] = "mounted"
    /\ deleteBtnShown(c, s)
    /\ mutate(c, "delete", [id |-> s])
    /\ UNCHANGED <<drag, session, userOf, nextId>>
    /\ UNCHANGED editorVars

\* getSquarePosition without the local drag buffer
M_getSquarePosition_remote(c, s) ==
    [x |-> Px(view[c][s].x), y |-> Px(view[c][s].y)]

\* the position a client displays a square at: local if dragging, the
\* replica's otherwise
getSquarePosition(c, s) ==
    IF drag[c].id = s THEN drag[c].position
    ELSE [x |-> Px(view[c][s].x), y |-> Px(view[c][s].y)]

\* the component is unmounted: onCleanup runs
onCleanup(c) ==
    /\ session[c] = "mounted"
    /\ session' = [session EXCEPT ![c] = "ended"]
    /\ IF drag[c].id # NoId
       THEN mutate(c, "endDrag", [id |-> drag[c].id,
                                  x |-> Round(drag[c].position.x),
                                  y |-> Round(drag[c].position.y)])
       ELSE /\ last' = NoTx
            /\ UNCHANGED <<squares, view>>
    /\ UNCHANGED <<drag, userOf, nextId>>
    /\ UNCHANGED editorVars

\* the client goes away without the component being unmounted (tab closed,
\* connection lost): no handler of the component runs
Disconnect(c) ==
    /\ session[c] = "mounted"
    /\ session' = [session EXCEPT ![c] = "ended"]
    /\ last' = NoTx
    /\ UNCHANGED <<squares, view, drag, userOf, nextId>>
    /\ UNCHANGED editorVars

Next ==
    \/ \E c \in Clients : SyncView(c)
    \/ \E c \in Clients, p \in CreatePoints : addSquare(c, p)
    \/ \E c \in Clients, s \in SquareIds, off \in MouseOffsets : handleMouseDown(c, s, off)
    \/ \E c \in Clients, e \in MousePoints, rect \in CanvasRects : handleMouseMove(c, e, rect)
    \/ \E c \in Clients : handleMouseUp(c)
    \/ \E c \in Clients, s \in SquareIds : deleteSquare(c, s)
    \/ \E c \in Clients : onCleanup(c)
    \/ \E c \in Clients : Disconnect(c)

Spec == Init /\ [][Next]_vars

----------------------------------------------------------------------------
(* The mutators as the server's interface: any client may submit any        *)
(* canvasSquare mutation with any arguments, whatever its component shows   *)

callCreate(c, s, p) ==
    /\ squares[s] = Absent
    /\ transact(c, "create", [id |-> s, x |-> p.x, y |-> p.y])
    /\ UNCHANGED <<view, drag, session, userOf, nextId>>
    /\ UNCHANGED editorVars

callStartDrag(c, s) ==
    /\ transact(c, "startDrag", [id |-> s])
    /\ UNCHANGED <<view, drag, session, userOf, nextId>>
    /\ UNCHANGED editorVars

callUpdatePosition(c, s, p) ==
    /\ transact(c, "updatePosition", [id |-> s, x |-> p.x, y |-> p.y])
    /\ UNCHANGED <<view, drag, session, userOf, nextId>>
    /\ UNCHANGED editorVars

callEndDrag(c, s, p) ==
    /\ transact(c, "endDrag", [id |-> s, x |-> p.x, y |-> p.y])
    /\ UNCHANGED <<view, drag, session, userOf, nextId>>
    /\ UNCHANGED editorVars

callDelete(c, s) ==
    /\ transact(c, "delete", [id |-> s])
    /\ UNCHANGED <<view, drag, session, userOf, nextId>>
    /\ UNCHANGED editorVars

MutatorNext ==
    \/ \E c \in Clients, s \in SquareIds, p \in CreatePoints : callCreate(c, s, p)
    \/ \E c \in Clients, s \in SquareIds : callStartDrag(c, s)
    \/ \E c \in Clients, s \in SquareIds, p \in UpdatePoints : callUpdatePosition(c, s, p)
    \/ \E c \in Clients, s \in SquareIds, p \in UpdatePoints : callEndDrag(c, s, p)
    \/ \E c \in Clients, s \in SquareIds : callDelete(c, s)

MutatorSpec == Init /\ [][MutatorNext]_vars

\* one client on the canvas while another actor's mutations reach the server
DisplayInit ==
    /\ Init
    /\ userOf = [c \in Clients |-> IF c = "c1" THEN "u1" ELSE "u2"]

DisplayNext ==
    \/ SyncView("c1")
    \/ \E p \in CreatePoints : addSquare("c1", p)
    \/ \E s \in SquareIds, off \in MouseOffsets : handleMouseDown("c1", s, off)
    \/ \E e \in MousePoints, rect \in CanvasRects : handleMouseMove("c1", e, rect)
    \/ handleMouseUp("c1")
    \/ \E s \in SquareIds : callStartDrag("c2", s)
    \/ \E s \in SquareIds, p \in UpdatePoints : callEndDrag("c2", s, p)

DisplaySpec == DisplayInit /\ [][DisplayNext]_vars

\* one client on the canvas while the squares it shows are created, moved and
\* deleted by another actor
StaleNext ==
    \/ SyncView("c1")
    \/ \E s \in SquareIds, off \in MouseOffsets : handleMouseDown("c1", s, off)
    \/ handleMouseUp("c1")
    \/ \E s \in SquareIds : deleteSquare("c1", s)
    \/ onCleanup("c1")
    \/ \E s \in SquareIds, p \in CreatePoints : callCreate("c2", s, p)
    \/ \E s \in SquareIds : callStartDrag("c2", s)
    \/ \E c \in Clients, s \in SquareIds, p \in CreatePoints : callUpdatePosition(c, s, p)
    \/ \E s \in SquareIds : callDelete("c2", s)

StaleSpec == Init /\ [][StaleNext]_vars

----------------------------------------------------------------------------
(* Mutators of the text tables: src/app/TrueCollaborativeInput.tsx 448-535 *)

\* upsert that inserts without looking for the actor's row
M_upsert_alwaysInsert(tbl, ctx, args, now) ==
    IF ctx = NoCtx THEN Thrown(tbl, "Must be logged in")
    ELSE IF \E r \in tbl : r.id = args.id THEN Returned(tbl)
    ELSE Written(tbl \cup
             { [id |-> args.id, documentId |-> args.documentId,
                userID |-> ctx.userID, content |-> args.content,
                updatedAt |-> now, joinedAt |-> now] })

\* upsert that takes the id argument on an update too
M_upsert_takesId(tbl, ctx, args, now) ==
    IF ctx = NoCtx THEN Thrown(tbl, "Must be logged in")
    ELSE LET existing == { r \in tbl : r.documentId = args.documentId
                                        /\ r.userID = ctx.userID } IN
         IF existing # {}
         THEN LET e == CHOOSE r \in existing : TRUE
              IN  Written((tbl \ {e}) \cup
                      { [e EXCEPT !.id = args.id, !.content = args.content,
                                  !.updatedAt = now] })
         ELSE IF \E r \in tbl : r.id = args.id THEN Returned(tbl)
         ELSE Written(tbl \cup
                  { [id |-> args.id, documentId |-> args.documentId,
                     userID |-> ctx.userID, content |-> args.content,
                     updatedAt |-> now, joinedAt |-> now] })

\* upsert 450-487. An insert whose id is the primary key of a stored row adds
\* no row (the insert is refused or ignored): the table is left as it was
contribution_upsert(tbl, ctx, args, now) ==
    IF ctx = NoCtx THEN Thrown(tbl, "Must be logged in")
    ELSE LET existing == { r \in tbl : r.documentId = args.documentId
                                        /\ r.userID = ctx.userID } IN
         IF existing # {}
         THEN LET e == CHOOSE r \in existing : TRUE
              IN  Written((tbl \ {e}) \cup
                      { [e EXCEPT !.content = args.content, !.updatedAt = now] })
         ELSE IF \E r \in tbl : r.id = args.id THEN Returned(tbl)
         ELSE Written(tbl \cup
                  { [id |-> args.id, documentId |-> args.documentId,
                     userID |-> ctx.userID, content |-> args.content,
                     updatedAt |-> now, joinedAt |-> now] })

\* clear that deletes the actor's row
M_clear_deletes(tbl, ctx, args, now) ==
    IF ctx = NoCtx THEN Thrown(tbl, "Must be logged in")
    ELSE LET existing == { r \in tbl : r.documentId = args.documentId
                                        /\ r.userID = ctx.userID } IN
         IF existing # {} THEN Written(tbl \ existing)
         ELSE Returned(tbl)

\* clear 490-510
contribution_clear(tbl, ctx, args, now) ==
    IF ctx = NoCtx THEN Thrown(tbl, "Must be logged in")
    ELSE LET existing == { r \in tbl : r.documentId = args.documentId
                                        /\ r.userID = ctx.userID } IN
         IF existing # {}
         THEN LET e == CHOOSE r \in existing : TRUE
              IN  Written((tbl \ {e}) \cup
                      { [e EXCEPT !.content = <<>>, !.updatedAt = now] })
         ELSE Returned(tbl)

sharedDocument_updateContent(doc, ctx, args, now) ==
    IF ctx = NoCtx THEN Thrown(doc, "Must be logged in")
    ELSE IF doc = NotLoaded THEN Returned(doc)
    ELSE Written([doc EXCEPT !.content = args.content, !.updatedAt = now])

----------------------------------------------------------------------------
(* The contribution mutators as the server's interface: any client may      *)
(* submit upsert and clear with any arguments                               *)

\* the server runs a contribution mutator as one transaction on the table
transactContribution(c, name, args, res) ==
    /\ clock < MaxClock
    /\ contributions' = res.table
    /\ clock' = clock + 1
    /\ last' = [name |-> name, client |-> c, args |-> args, now |-> clock,
                outcome |-> res.outcome, error |-> res.error, writes |-> res.writes]
    /\ UNCHANGED <<squares, view, drag, session, userOf, nextId, page, ce, tc, ci,
                   timers, timerSeq, contribView, sharedDoc, sharedView, nextRowId,
                   captured, commits, otherTables>>

callUpsert(c, id, d, t) ==
    LET args == [id |-> id, documentId |-> d, content |-> t]
    IN  transactContribution(c, "contribution.upsert", args,
                             contribution_upsert(contributions, ctxOf(c), args, clock))

callClear(c, d) ==
    LET args == [documentId |-> d]
    IN  transactContribution(c, "contribution.clear", args,
                             contribution_clear(contributions, ctxOf(c), args, clock))

ContributionInit ==
    /\ InitCanvas
    /\ InitEditors
    /\ contributions = {}
    /\ session = [c \in Clients |-> "mounted"]
    /\ page = "CollaborativeEditor"

\* the content argument of the submitted upserts
UpsertTexts == { <<>>, <<"a">> }

ContributionNext ==
    \/ \E c \in Clients, id \in RowIds, d \in DocIds, t \in UpsertTexts :
           callUpsert(c, id, d, t)
    \/ \E c \in Clients, d \in DocIds : callClear(c, d)

ContributionSpec == ContributionInit /\ [][ContributionNext]_vars

----------------------------------------------------------------------------
(* The remaining mutators: src/app/TrueCollaborativeInput.tsx 387-446, 537-593 *)

\* an insert whose id is the primary key of a stored row adds no row
insert(tbl, row) ==
    IF \E r \in tbl : r.id = row.id THEN Returned(tbl) ELSE Written(tbl \cup {row})

\* message.create 388-399: no mustBeLoggedIn
message_create(tbl, ctx, args, now) == insert(tbl, args)

\* message.delete 400-408
message_delete(tbl, ctx, args, now) ==
    IF ctx = NoCtx THEN Thrown(tbl, "Must be logged in")
    ELSE Written({ r \in tbl : r.id # args.id })

\* message.update 409-427
message_update(tbl, ctx, args, now) ==
    IF ctx = NoCtx THEN Thrown(tbl, "Must be logged in")
    ELSE LET prev == { r \in tbl : r.id = args.message.id } IN
         IF prev = {} THEN Returned(tbl)
         ELSE IF (CHOOSE r \in prev : TRUE).senderID # ctx.userID
         THEN Thrown(tbl, "Must be sender of message to edit")
         ELSE Written((tbl \ prev) \cup
                  { [r EXCEPT !.body = args.message.body] : r \in prev })

\* collaborativeDocument.create 434-445: no mustBeLoggedIn
collaborativeDocument_create(tbl, ctx, args, now) ==
    insert(tbl, [id |-> args.id, title |-> args.title, createdAt |-> now])

\* userCursor.update 541-573
userCursor_update(tbl, ctx, args, now) ==
    IF ctx = NoCtx THEN Thrown(tbl, "Must be logged in")
    ELSE LET existing == { r \in tbl : r.documentId = args.documentId
                                        /\ r.userID = ctx.userID } IN
         IF existing # {}
         THEN LET e == CHOOSE r \in existing : TRUE
              IN  Written((tbl \ {e}) \cup
                      { [e EXCEPT !.position = args.position, !.updatedAt = now] })
         ELSE insert(tbl, [id |-> args.id, documentId |-> args.documentId,
                           userID |-> ctx.userID, position |-> args.position,
                           updatedAt |-> now])

\* userCursor.remove 576-592
userCursor_remove(tbl, ctx, args, now) ==
    IF ctx = NoCtx THEN Thrown(tbl, "Must be logged in")
    ELSE LET existing == { r \in tbl : r.documentId = args.documentId
                                        /\ r.userID = ctx.userID } IN
         IF existing # {} THEN Written(tbl \ existing)
         ELSE Returned(tbl)

\* the table each mutator works on
CanvasMutators == {"create", "startDrag", "updatePosition", "endDrag", "delete"}

MessageMutators == {"message.create", "message.delete", "message.update"}

ContributionMutators == {"contribution.upsert", "contribution.clear"}

CursorMutators == {"userCursor.update", "userCursor.remove"}

\* defineMutators: the mutator a submitted mutation names, run on its table
runNamed(name, ctx, args, now) ==
    CASE name \in CanvasMutators -> runMutator(name, squares, ctx, args)
      [] name = "message.create" -> message_create(message, ctx, args, now)
      [] name = "message.delete" -> message_delete(message, ctx, args, now)
      [] name = "message.update" -> message_update(message, ctx, args, now)
      [] name = "collaborativeDocument.create" ->
             collaborativeDocument_create(collaborative_document, ctx, args, now)
      [] name = "contribution.upsert" -> contribution_upsert(contributions, ctx, args, now)
      [] name = "contribution.clear" -> contribution_clear(contributions, ctx, args, now)
      [] name = "sharedDocument.updateContent" ->
             sharedDocument_updateContent(sharedDoc, ctx, args, now)
      [] name = "userCursor.update" -> userCursor_update(user_cursor, ctx, args, now)
      [] name = "userCursor.remove" -> userCursor_remove(user_cursor, ctx, args, now)

\* a client submits a mutation: the server runs the mutator with the client's
\* context as one transaction
submit(c, name, args) ==
    LET res == runNamed(name, ctxOf(c), args, clock) IN
    /\ clock < MaxClock
    /\ clock' = clock + 1
    /\ squares' = IF name \in CanvasMutators THEN res.table ELSE squares
    /\ message' = IF name \in MessageMutators THEN res.table ELSE message
    /\ collaborative_document' =
           IF name = "collaborativeDocument.create" THEN res.table
           ELSE collaborative_document
    /\ contributions' = IF name \in ContributionMutators THEN res.table ELSE contributions
    /\ sharedDoc' = IF name = "sharedDocument.updateContent" THEN res.table ELSE sharedDoc
    /\ user_cursor' = IF name \in CursorMutators THEN res.table ELSE user_cursor
    /\ last' = [name |-> name, client |-> c, args |-> args, now |-> clock,
                outcome |-> res.outcome, error |-> res.error, writes |-> res.writes]
    /\ UNCHANGED <<view, drag, session, userOf, nextId, page, ce, tc, ci, timers,
                   timerSeq, contribView, sharedView, nextRowId, captured, commits>>

\* the ids, texts and positions the submitted mutations carry
MessageIds == {1}

CursorPositions == {0, 1}

AuthNext ==
    \/ \E c \in Clients, s \in SquareIds, p \in CreatePoints :
           squares[s] = Absent /\ submit(c, "create", [id |-> s, x |-> p.x, y |-> p.y])
    \/ \E c \in Clients, s \in SquareIds : submit(c, "startDrag", [id |-> s])
    \/ \E c \in Clients, s \in SquareIds, p \in CreatePoints :
           submit(c, "updatePosition", [id |-> s, x |-> p.x, y |-> p.y])
    \/ \E c \in Clients, s \in SquareIds, p \in CreatePoints :
           submit(c, "endDrag", [id |-> s, x |-> p.x, y |-> p.y])
    \/ \E c \in Clients, s \in SquareIds : submit(c, "delete", [id |-> s])
    \/ \E c \in Clients, i \in MessageIds, u \in Users :
           submit(c, "message.create",
                  [id |-> i, mediumID |-> 1, senderID |-> u, body |-> <<"a">>,
                   timestamp |-> 0])
    \/ \E c \in Clients, i \in MessageIds : submit(c, "message.delete", [id |-> i])
    \/ \E c \in Clients, i \in MessageIds :
           submit(c, "message.update", [message |-> [id |-> i, body |-> <<"a", "b">>]])
    \/ \E c \in Clients :
           submit(c, "collaborativeDocument.create", [id |-> ThisDoc, title |-> <<"a">>])
    \/ \E c \in Clients :
           submit(c, "contribution.upsert",
                  [id |-> nextRowId, documentId |-> ThisDoc, content |-> <<"a">>])
    \/ \E c \in Clients : submit(c, "contribution.clear", [documentId |-> ThisDoc])
    \/ \E c \in Clients :
           submit(c, "sharedDocument.updateContent",
                  [documentId |-> ThisDoc, content |-> <<"a">>, cursorPosition |-> 1])
    \/ \E c \in Clients, p \in CursorPositions :
           submit(c, "userCursor.update",
                  [id |-> 1, documentId |-> ThisDoc, position |-> p])
    \/ \E c \in Clients : submit(c, "userCursor.remove", [documentId |-> ThisDoc])

\* one logged-in client and one that is not
AuthInit ==
    /\ InitCanvas
    /\ InitEditors
    /\ userOf = [c \in Clients |-> IF c = "c1" THEN "u1" ELSE Anon]
    /\ session = [c \in Clients |-> "mounted"]
    /\ page = "MultiplayerCanvas"

AuthSpec == AuthInit /\ [][AuthNext]_vars

----------------------------------------------------------------------------
(* The browser's timers *)

\* clearTimeout(h) in client c; a handle that is not pending clears nothing
clearTimeout(tms, c, h) == { t \in tms : ~(t.client = c /\ t.id = h) }

\* setTimeout(callback, ms) in client c; the callback has captured content
setTimeout(tms, c, content) ==
    tms \cup { [id |-> timerSeq[c] + 1, client |-> c, content |-> content] }

\* the pending timer with handle h of client c, and the content its callback captured
pendingTimer(c, h) == { t \in timers : t.client = c /\ t.id = h }

callbackContent(c, h) == (CHOOSE t \in pendingTimer(c, h) : TRUE).content

\* re-arming that leaves the previous timer pending
M_rearm_noClear(tms, c, h, content) == setTimeout(tms, c, content)

\* if (timer) clearTimeout(timer); timer = setTimeout(...)
rearm(tms, c, h, content) ==
    setTimeout(IF h # NoTimer THEN clearTimeout(tms, c, h) ELSE tms, c, content)

----------------------------------------------------------------------------
(* CollaborativeEditor: src/app/CollaborativeEditor.tsx *)

\* the rows a component's queries deliver: those of props.documentId
forDocument(rows) == { r \in rows : r.documentId = ThisDoc }

EditorInit ==
    /\ InitCanvas
    /\ InitEditors
    /\ session = [c \in Clients |-> "mounted"]
    /\ page \in EditorPages

\* queries.contribution.mine for a client, on a replica
myContribution(rows, c) == { r \in rows : r.documentId = ThisDoc /\ r.userID = userOf[c] }

\* createEffect 51-58: initialize the local content from my contribution, once
CE_initEffect(rec, rows, c) ==
    IF myContribution(rows, c) # {} /\ ~rec.initialized
    THEN [rec EXCEPT !.localContent = (CHOOSE r \in myContribution(rows, c) : TRUE).content,
                     !.initialized = TRUE]
    ELSE rec

CE_sync(c) ==
    /\ page = "CollaborativeEditor"
    /\ session[c] = "mounted"
    /\ contribView[c] # forDocument(contributions)
    /\ contribView' = [contribView EXCEPT ![c] = forDocument(contributions)]
    /\ ce' = [ce EXCEPT ![c] = CE_initEffect(ce[c], forDocument(contributions), c)]
    /\ UNCHANGED <<session, userOf, page, tc, ci, timers, timerSeq, contributions,
                   sharedDoc, sharedView, clock, nextRowId, captured, commits>>
    /\ UNCHANGED canvasVars

\* handleInput 92-97 with syncToServer 68-89 up to the setTimeout
CE_handleInput(c, newContent) ==
    /\ page = "CollaborativeEditor"
    /\ session[c] = "mounted"
    /\ userOf[c] # Anon
    /\ timerSeq[c] < MaxInputs
    /\ IF userOf[c] = Anon
       THEN /\ ce' = [ce EXCEPT ![c].localContent = newContent]
            /\ UNCHANGED <<timers, timerSeq, captured>>
       ELSE /\ timers' = rearm(timers, c, ce[c].debounceTimer, newContent)
            /\ timerSeq' = [timerSeq EXCEPT ![c] = @ + 1]
            /\ ce' = [ce EXCEPT ![c].localContent = newContent,
                                ![c].debounceTimer = timerSeq[c] + 1]
            /\ captured' = [captured EXCEPT ![c] = Append(@, newContent)]
    /\ UNCHANGED <<session, userOf, page, tc, ci, contributions, contribView,
                   sharedDoc, sharedView, clock, nextRowId, commits>>
    /\ UNCHANGED canvasVars

\* the timer callback of syncToServer 77-88
CE_timerFires(c, h) ==
    /\ page = "CollaborativeEditor"
    /\ pendingTimer(c, h) # {}
    /\ clock < MaxClock
    /\ timers' = clearTimeout(timers, c, h)
    /\ IF Len(callbackContent(c, h)) >= MIN_CHARS_TO_SYNC \/ callbackContent(c, h) = <<>>
       THEN LET mine == myContribution(contribView[c], c)
                args == [id |-> IF mine # {} THEN (CHOOSE r \in mine : TRUE).id
                                ELSE nextRowId,
                         documentId |-> ThisDoc,
                         content |-> callbackContent(c, h)]
                local == contribution_upsert(contribView[c], ctxOf(c), args, clock).table
            IN  /\ contributions' =
                       contribution_upsert(contributions, ctxOf(c), args, clock).table
                /\ contribView' = [contribView EXCEPT ![c] = local]
                /\ ce' = [ce EXCEPT ![c] = CE_initEffect(ce[c], local, c)]
                /\ nextRowId' = IF mine # {} THEN nextRowId ELSE nextRowId + 1
                /\ clock' = clock + 1
                /\ commits' = [commits EXCEPT ![c] = Append(@, callbackContent(c, h))]
       ELSE UNCHANGED <<contributions, contribView, ce, nextRowId, clock, commits>>
    /\ UNCHANGED <<session, userOf, page, tc, ci, timerSeq, sharedDoc, sharedView, captured>>
    /\ UNCHANGED canvasVars

\* handleClear 129-138
CE_handleClear(c) ==
    /\ page = "CollaborativeEditor"
    /\ session[c] = "mounted"
    /\ userOf[c] # Anon
    /\ clock < MaxClock
    /\ LET args == [documentId |-> ThisDoc]
           local == contribution_clear(contribView[c], ctxOf(c), args, clock).table
       IN  /\ contributions' = contribution_clear(contributions, ctxOf(c), args, clock).table
           /\ contribView' = [contribView EXCEPT ![c] = local]
           /\ ce' = [ce EXCEPT ![c] =
                  CE_initEffect([ce[c] EXCEPT !.localContent = <<>>], local, c)]
    /\ clock' = clock + 1
    /\ UNCHANGED <<session, userOf, page, tc, ci, timers, timerSeq, sharedDoc,
                   sharedView, nextRowId, captured, commits>>
    /\ UNCHANGED canvasVars

\* onCleanup 61-65
CE_onCleanup(c) ==
    /\ page = "CollaborativeEditor"
    /\ session[c] = "mounted"
    /\ session' = [session EXCEPT ![c] = "ended"]
    /\ timers' = IF ce[c].debounceTimer # NoTimer
                 THEN clearTimeout(timers, c, ce[c].debounceTimer)
                 ELSE timers
    /\ UNCHANGED <<userOf, page, ce, tc, ci, timerSeq, contributions, contribView,
                   sharedDoc, sharedView, clock, nextRowId, captured, commits>>
    /\ UNCHANGED canvasVars

----------------------------------------------------------------------------
(* TrueCollaborativeInput: src/app/TrueCollaborativeInput.tsx 19-158 *)

\* the effects without the replacement of the text by a differing server content
M_TC_effects_keepLocal(rec, doc, c) ==
    IF doc = NotLoaded \/ userOf[c] = Anon THEN rec
    ELSE IF ~rec.initialized
    THEN [rec EXCEPT !.value = doc.content,
                     !.selectionStart = Len(doc.content),
                     !.selectionEnd = Len(doc.content),
                     !.lastKnownContent = doc.content,
                     !.initialized = TRUE]
    ELSE rec

\* the effects with the shifted cursor left unclamped
M_TC_effects_noClamp(rec, doc, c) ==
    IF doc = NotLoaded \/ userOf[c] = Anon THEN rec
    ELSE IF ~rec.initialized
    THEN [rec EXCEPT !.value = doc.content,
                     !.selectionStart = Len(doc.content),
                     !.selectionEnd = Len(doc.content),
                     !.lastKnownContent = doc.content,
                     !.initialized = TRUE]
    ELSE IF doc.content # rec.value
    THEN LET newCursorPos == rec.selectionStart + Len(doc.content) - Len(rec.value)
         IN  [rec EXCEPT !.value = doc.content,
                         !.lastKnownContent = doc.content,
                         !.selectionStart = newCursorPos,
                         !.selectionEnd = newCursorPos]
    ELSE rec

\* createEffect 50-57 (initialize) and 60-84 (sync server content to local);
\* the textarea is rendered only for a logged-in client
TC_effects(rec, doc, c) ==
    IF doc = NotLoaded \/ userOf[c] = Anon THEN rec
    ELSE IF ~rec.initialized
    THEN [rec EXCEPT !.value = doc.content,
                     !.selectionStart = Len(doc.content),
                     !.selectionEnd = Len(doc.content),
                     !.lastKnownContent = doc.content,
                     !.initialized = TRUE]
    ELSE IF doc.content # rec.value
    THEN LET cursorPos == rec.selectionStart
             lengthDiff == Len(doc.content) - Len(rec.value)
             newCursorPos == Max(0, Min(cursorPos + lengthDiff, Len(doc.content)))
         IN  [rec EXCEPT !.value = doc.content,
                         !.lastKnownContent = doc.content,
                         !.selectionStart = newCursorPos,
                         !.selectionEnd = newCursorPos]
    ELSE rec

TC_sync(c) ==
    /\ page = "TrueCollaborativeInput"
    /\ session[c] = "mounted"
    /\ sharedView[c] # sharedDoc
    /\ sharedView' = [sharedView EXCEPT ![c] = sharedDoc]
    /\ tc' = [tc EXCEPT ![c] = TC_effects(tc[c], sharedDoc, c)]
    /\ UNCHANGED <<session, userOf, page, ce, ci, timers, timerSeq, contributions,
                   contribView, sharedDoc, clock, nextRowId, captured, commits>>
    /\ UNCHANGED canvasVars

\* handleInput 113-119 with syncContent 92-110 up to the setTimeout; the user
\* has left newContent in the textarea with the caret at cursor
TC_handleInput(c, newContent, cursor) ==
    /\ page = "TrueCollaborativeInput"
    /\ session[c] = "mounted"
    /\ userOf[c] # Anon
    /\ timerSeq[c] < MaxInputs
    /\ cursor <= Len(newContent)
    /\ IF userOf[c] = Anon
       THEN /\ tc' = [tc EXCEPT ![c].value = newContent,
                                ![c].selectionStart = cursor,
                                ![c].selectionEnd = cursor,
                                ![c].lastKnownContent = newContent]
            /\ UNCHANGED <<timers, timerSeq, captured>>
       ELSE /\ timers' = rearm(timers, c, tc[c].sendContentTimer, newContent)
            /\ timerSeq' = [timerSeq EXCEPT ![c] = @ + 1]
            /\ tc' = [tc EXCEPT ![c].value = newContent,
                                ![c].selectionStart = cursor,
                                ![c].selectionEnd = cursor,
                                ![c].lastKnownContent = newContent,
                                ![c].sendContentTimer = timerSeq[c] + 1]
            /\ captured' = [captured EXCEPT ![c] = Append(@, newContent)]
    /\ UNCHANGED <<session, userOf, page, ce, ci, contributions, contribView,
                   sharedDoc, sharedView, clock, nextRowId, commits>>
    /\ UNCHANGED canvasVars

\* the timer callback of syncContent 99-109
TC_timerFires(c, h) ==
    /\ page = "TrueCollaborativeInput"
    /\ pendingTimer(c, h) # {}
    /\ clock < MaxClock
    /\ timers' = clearTimeout(timers, c, h)
    /\ LET args == [content |-> callbackContent(c, h)]
           local == sharedDocument_updateContent(sharedView[c], ctxOf(c), args, clock).table
       IN  /\ sharedDoc' = sharedDocument_updateContent(sharedDoc, ctxOf(c), args, clock).table
           /\ sharedView' = [sharedView EXCEPT ![c] = local]
           /\ tc' = [tc EXCEPT ![c] =
                  TC_effects([tc[c] EXCEPT !.lastKnownContent = callbackContent(c, h)], local, c)]
    /\ clock' = clock + 1
    /\ commits' = [commits EXCEPT ![c] = Append(@, callbackContent(c, h))]
    /\ UNCHANGED <<session, userOf, page, ce, ci, timerSeq, contributions, contribView,
                   nextRowId, captured>>
    /\ UNCHANGED canvasVars

\* onCleanup 87-89
TC_onCleanup(c) ==
    /\ page = "TrueCollaborativeInput"
    /\ session[c] = "mounted"
    /\ session' = [session EXCEPT ![c] = "ended"]
    /\ timers' = IF tc[c].sendContentTimer # NoTimer
                 THEN clearTimeout(timers, c, tc[c].sendContentTimer)
                 ELSE timers
    /\ UNCHANGED <<userOf, page, ce, tc, ci, timerSeq, contributions, contribView,
                   sharedDoc, sharedView, clock, nextRowId, captured, commits>>
    /\ UNCHANGED canvasVars

----------------------------------------------------------------------------
(* Strings *)

\* s.indexOf(sub), -1 when sub does not occur
IndexOf(s, sub) ==
    LET at == { i \in 0..(Len(s) - Len(sub)) : SubSeq(s, i + 1, i + Len(sub)) = sub }
    IN  IF at = {} THEN -1 ELSE CHOOSE i \in at : \A j \in at : i <= j

\* s.includes(sub)
Includes(s, sub) == IndexOf(s, sub) # -1

\* s.substring(0, k) for k >= 0
Substring0(s, k) == SubSeq(s, 1, Min(k, Len(s)))

\* s.trim()
Trim(s) ==
    LET ink == { i \in 1..Len(s) : s[i] # " " }
    IN  IF ink = {} THEN <<>>
        ELSE SubSeq(s, CHOOSE i \in ink : \A j \in ink : i <= j,
                       CHOOSE i \in ink : \A j \in ink : i >= j)

\* parts.join(sep)
RECURSIVE Join(_, _)
Join(parts, sep) ==
    IF parts = <<>> THEN <<>>
    ELSE IF Len(parts) = 1 THEN parts[1]
    ELSE parts[1] \o sep \o Join(Tail(parts), sep)

\* .orderBy("joinedAt", "asc") of a set of rows
RECURSIVE OrderByJoinedAt(_)
OrderByJoinedAt(rows) ==
    IF rows = {} THEN <<>>
    ELSE LET first == CHOOSE r \in rows : \A q \in rows : r.joinedAt <= q.joinedAt
         IN  <<first>> \o OrderByJoinedAt(rows \ {first})

\* xs.map(r => r.content)
Contents(xs) == [i \in 1..Len(xs) |-> xs[i].content]

----------------------------------------------------------------------------
(* CollaborativeInput: src/unnamed/part_000 *)

\* othersText 53-61
othersText(rows, c) ==
    LET keep(r) == r.userID # userOf[c] /\ Trim(r.content) # <<>>
    IN  Join(Contents(SelectSeq(OrderByJoinedAt(rows), keep)), SEPARATOR)

\* displayValue 64-72
displayValue(mine, others) ==
    IF mine = <<>> /\ others = <<>> THEN <<>>
    ELSE IF mine = <<>> THEN others
    ELSE IF others = <<>> THEN mine
    ELSE mine \o SEPARATOR \o others

\* the textarea after the component state went from rec to next with the
\* replica going from rows to rows2: value={displayValue()} is written to the
\* element when displayValue changes, which puts the caret at the end when
\* the element held another value
CI_render(rec, rows, next, rows2, c) ==
    LET before == displayValue(rec.myText, othersText(rows, c))
        after == displayValue(next.myText, othersText(rows2, c))
    IN  IF after # before /\ after # next.value
        THEN [next EXCEPT !.value = after, !.selectionStart = Len(after),
                          !.selectionEnd = Len(after)]
        ELSE next

\* createEffect 80-86: initialize my text from my contribution, once
CI_initEffect(rec, rows, c) ==
    IF myContribution(rows, c) # {} /\ ~rec.initialized
    THEN [rec EXCEPT !.myText = (CHOOSE r \in myContribution(rows, c) : TRUE).content,
                     !.initialized = TRUE]
    ELSE rec

CI_sync(c) ==
    /\ page = "CollaborativeInput"
    /\ session[c] = "mounted"
    /\ contribView[c] # forDocument(contributions)
    /\ contribView' = [contribView EXCEPT ![c] = forDocument(contributions)]
    /\ ci' = [ci EXCEPT ![c] = CI_render(ci[c], contribView[c],
                                         CI_initEffect(ci[c], forDocument(contributions), c),
                                         forDocument(contributions), c)]
    /\ UNCHANGED <<session, userOf, page, ce, tc, timers, timerSeq, contributions,
                   sharedDoc, sharedView, clock, nextRowId, captured, commits>>
    /\ UNCHANGED canvasVars

\* what a key press does to the textarea: a character typed at the caret p,
\* or the character before the caret p removed
Typed(value, p, ch) ==
    [value |-> SubSeq(value, 1, p) \o <<ch>> \o SubSeq(value, p + 1, Len(value)),
     cursor |-> p + 1]

Backspaced(value, p) ==
    [value |-> SubSeq(value, 1, p - 1) \o SubSeq(value, p + 1, Len(value)),
     cursor |-> p - 1]

Backspace == "Backspace"

\* the character after the caret p removed
Deleted(value, p) ==
    [value |-> SubSeq(value, 1, p) \o SubSeq(value, p + 2, Len(value)),
     cursor |-> p]

Delete == "Delete"

\* the textarea after the key is pressed with the caret at p
Edited(value, p, key) ==
    IF key = Backspace THEN Backspaced(value, p)
    ELSE IF key = Delete THEN Deleted(value, p)
    ELSE Typed(value, p, key)

\* handleInput 118-122: "what the old full value was"
oldFullValue(currentMyText, others) ==
    IF others # <<>> THEN currentMyText \o SEPARATOR \o others
    ELSE currentMyText

\* handleInput without the check of the caret against the zone of the
\* local actor: every event is taken as an edit of my text
M_handleInput_noZoneCheck(currentMyText, others, newValue, cursorPos) ==
    LET myZoneEnd == Len(currentMyText)
        lengthDiff == Len(newValue) - Len(oldFullValue(currentMyText, others))
        newMyText ==
            IF others # <<>> /\ Includes(newValue, SEPARATOR)
            THEN Substring0(newValue, IndexOf(newValue, SEPARATOR))
            ELSE IF others # <<>>
            THEN Substring0(newValue, Max(0, myZoneEnd + lengthDiff))
            ELSE newValue
    IN  [accepted |-> TRUE, myText |-> newMyText, value |-> newValue,
         selectionStart |-> cursorPos, selectionEnd |-> cursorPos]

\* handleInput 110-158 on the event the browser left in the textarea: its
\* value newValue and its caret cursorPos. accepted: the branch that calls
\* setMyText and syncToServer; otherwise the textarea is reset
handleInput(currentMyText, others, newValue, cursorPos) ==
    LET myZoneEnd == Len(currentMyText)
        lengthDiff == Len(newValue) - Len(oldFullValue(currentMyText, others))
        newMyText ==
            IF others # <<>> /\ Includes(newValue, SEPARATOR)
            THEN Substring0(newValue, IndexOf(newValue, SEPARATOR))
            ELSE IF others # <<>>
            THEN Substring0(newValue, Max(0, myZoneEnd + lengthDiff))
            ELSE newValue
    IN  IF cursorPos <= myZoneEnd + lengthDiff + 1
        THEN [accepted |-> TRUE, myText |-> newMyText, value |-> newValue,
              selectionStart |-> cursorPos, selectionEnd |-> cursorPos]
        ELSE [accepted |-> FALSE, myText |-> currentMyText,
              value |-> displayValue(currentMyText, others),
              selectionStart |-> myZoneEnd, selectionEnd |-> myZoneEnd]

\* the input event of a key pressed with the caret at p, handled by
\* handleInput 110-158 with syncToServer 93-107 up to the setTimeout; rec is
\* the component state when the event is dispatched
CI_input(c, rec, p, key) ==
    /\ page = "CollaborativeInput"
    /\ session[c] = "mounted"
    /\ userOf[c] # Anon
    /\ timerSeq[c] < MaxInputs
    /\ p <= Len(ci[c].value)
    /\ key = Backspace => p >= 1
    /\ key = Delete => p < Len(ci[c].value)
    /\ LET e == Edited(ci[c].value, p, key)
           r == handleInput(ci[c].myText, othersText(contribView[c], c), e.value, e.cursor)
           handled == [rec EXCEPT !.myText = r.myText, !.value = r.value,
                                  !.selectionStart = r.selectionStart,
                                  !.selectionEnd = r.selectionEnd]
       IN  IF r.accepted
           THEN /\ ci' = [ci EXCEPT ![c] =
                       CI_render(ci[c], contribView[c],
                                 [handled EXCEPT !.debounceTimer = timerSeq[c] + 1],
                                 contribView[c], c)]
                /\ timers' = rearm(timers, c, ci[c].debounceTimer, r.myText)
                /\ timerSeq' = [timerSeq EXCEPT ![c] = @ + 1]
                /\ captured' = [captured EXCEPT ![c] = Append(@, r.myText)]
           ELSE /\ ci' = [ci EXCEPT ![c] = handled]
                /\ UNCHANGED <<timers, timerSeq, captured>>
    /\ UNCHANGED <<session, userOf, page, ce, tc, contributions, contribView,
                   sharedDoc, sharedView, clock, nextRowId, commits>>
    /\ UNCHANGED canvasVars

CI_handleInput(c, p, key) == CI_input(c, ci[c], p, key)

\* the timer callback of syncToServer 98-106
CI_timerFires(c, h) ==
    /\ page = "CollaborativeInput"
    /\ pendingTimer(c, h) # {}
    /\ clock < MaxClock
    /\ timers' = clearTimeout(timers, c, h)
    /\ LET mine == myContribution(contribView[c], c)
           args == [id |-> IF mine # {} THEN (CHOOSE r \in mine : TRUE).id
                           ELSE nextRowId,
                    documentId |-> ThisDoc,
                    content |-> callbackContent(c, h)]
           local == contribution_upsert(contribView[c], ctxOf(c), args, clock).table
       IN  /\ contributions' =
                  contribution_upsert(contributions, ctxOf(c), args, clock).table
           /\ contribView' = [contribView EXCEPT ![c] = local]
           /\ ci' = [ci EXCEPT ![c] = CI_render(ci[c], contribView[c],
                                                CI_initEffect(ci[c], local, c),
                                                local, c)]
           /\ nextRowId' = IF mine # {} THEN nextRowId ELSE nextRowId + 1
    /\ clock' = clock + 1
    /\ commits' = [commits EXCEPT ![c] = Append(@, callbackContent(c, h))]
    /\ UNCHANGED <<session, userOf, page, ce, tc, timerSeq, sharedDoc, sharedView,
                   captured>>
    /\ UNCHANGED canvasVars

\* onCleanup 88-90
CI_onCleanup(c) ==
    /\ page = "CollaborativeInput"
    /\ session[c] = "mounted"
    /\ session' = [session EXCEPT ![c] = "ended"]
    /\ timers' = IF ci[c].debounceTimer # NoTimer
                 THEN clearTimeout(timers, c, ci[c].debounceTimer)
                 ELSE timers
    /\ UNCHANGED <<userOf, page, ce, tc, ci, timerSeq, contributions, contribView,
                   sharedDoc, sharedView, clock, nextRowId, captured, commits>>
    /\ UNCHANGED canvasVars

\* textarea.selectionStart = v: the end of the selection moves with a start
\* set beyond it
setSelectionStart(rec, v) ==
    LET start == Min(v, Len(rec.value))
    IN  [rec EXCEPT !.selectionStart = start,
                    !.selectionEnd = Max(Min(rec.selectionEnd, Len(rec.value)), start)]

\* textarea.selectionEnd = v: the start of the selection moves with an end
\* set before it
setSelectionEnd(rec, v) ==
    LET end == Min(v, Len(rec.value))
    IN  [rec EXCEPT !.selectionEnd = end,
                    !.selectionStart = Min(rec.selectionStart, end)]

\* myTextEndIndex 75-77
myTextEndIndex(rec) == Len(rec.myText)

\* handleSelect that moves back only the start of the selection
M_handleSelect_startOnly(rec) ==
    LET myZoneEnd == myTextEndIndex(rec)
        selStart == rec.selectionStart
    IN  IF selStart > myZoneEnd THEN setSelectionStart(rec, myZoneEnd) ELSE rec

\* handleSelect 161-175 on the selection the browser left in the textarea
handleSelect(rec) ==
    LET myZoneEnd == myTextEndIndex(rec)
        selStart == rec.selectionStart
        selEnd == rec.selectionEnd
        r1 == IF selStart > myZoneEnd THEN setSelectionStart(rec, myZoneEnd) ELSE rec
    IN  IF selEnd > myZoneEnd THEN setSelectionEnd(r1, myZoneEnd) ELSE r1

ArrowRight == "ArrowRight"

ArrowLeft == "ArrowLeft"

End == "End"

\* the keys of the keydown events
NavKeys == {ArrowRight, ArrowLeft, End, Delete}

\* handleKeyDown 178-195: whether e.preventDefault() is called
handleKeyDown(rec, key) ==
    LET myZoneEnd == myTextEndIndex(rec)
        cursorPos == rec.selectionStart
    IN  \/ (key = ArrowRight \/ key = End) /\ cursorPos >= myZoneEnd
        \/ key = Delete /\ cursorPos >= myZoneEnd

\* how many select and keydown events a client's textarea receives
MaxEvents == 2

\* the textarea exists and can receive one more select or keydown event
CI_canReceive(c) ==
    /\ page = "CollaborativeInput"
    /\ session[c] = "mounted"
    /\ userOf[c] # Anon
    /\ ci[c].eventSeq < MaxEvents

\* onSelect / onClick: the browser has set the selection start..end, then
\* handleSelect 161-175 runs
CI_handleSelect(c, start, end) ==
    /\ CI_canReceive(c)
    /\ start <= end
    /\ end <= Len(ci[c].value)
    /\ ci' = [ci EXCEPT ![c] =
                 [handleSelect([ci[c] EXCEPT !.selectionStart = start,
                                             !.selectionEnd = end])
                      EXCEPT !.event = [type |-> "select", selStart |-> start,
                                        selEnd |-> end],
                             !.eventSeq = @ + 1]]
    /\ UNCHANGED <<session, userOf, page, ce, tc, timers, timerSeq, contributions,
                   contribView, sharedDoc, sharedView, clock, nextRowId, captured,
                   commits>>
    /\ UNCHANGED canvasVars

\* where the caret p goes when the browser handles an arrow or End key
Moved(value, p, key) ==
    IF key = ArrowRight THEN Min(p + 1, Len(value))
    ELSE IF key = ArrowLeft THEN Max(p - 1, 0)
    ELSE Len(value)

\* onKeyDown with a caret in the textarea: handleKeyDown 178-195, then,
\* unless the handler prevented it, what the browser does with the key; a
\* Delete that removes a character is followed by the input event
CI_handleKeyDown(c, key) ==
    /\ CI_canReceive(c)
    /\ ci[c].selectionStart = ci[c].selectionEnd
    /\ LET p == ci[c].selectionStart
           prevented == handleKeyDown(ci[c], key)
           rec == [ci[c] EXCEPT !.event = [type |-> "keydown", key |-> key,
                                           defaultPrevented |-> prevented],
                                !.eventSeq = @ + 1]
       IN  IF ~prevented /\ key = Delete /\ p < Len(ci[c].value)
           THEN CI_input(c, rec, p, Delete)
           ELSE /\ ci' = [ci EXCEPT ![c] =
                             IF prevented \/ key = Delete THEN rec
                             ELSE [rec EXCEPT
                                       !.selectionStart = Moved(rec.value, p, key),
                                       !.selectionEnd = Moved(rec.value, p, key)]]
                /\ UNCHANGED <<session, userOf, page, ce, tc, timers, timerSeq,
                               contributions, contribView, sharedDoc, sharedView,
                               clock, nextRowId, captured, commits>>
                /\ UNCHANGED canvasVars

\* one actor in the zone-partitioned input, typing at the caret, selecting
\* and pressing keys, next to the stored text of another actor
ZoneInit ==
    /\ InitCanvas
    /\ InitEditors
    /\ session = [c \in Clients |-> IF c = "c1" THEN "mounted" ELSE "ended"]
    /\ userOf = [c \in Clients |-> IF c = "c1" THEN "u1" ELSE "u2"]
    /\ page = "CollaborativeInput"

ZoneNext ==
    \/ CI_sync("c1")
    \/ \E key \in Keys \cup {Backspace} :
           /\ ci["c1"].selectionStart = ci["c1"].selectionEnd
           /\ CI_handleInput("c1", ci["c1"].selectionStart, key)
    \/ \E h \in TimerIds : CI_timerFires("c1", h)
    \/ CI_onCleanup("c1")
    \/ \E start \in Carets, end \in Carets : CI_handleSelect("c1", start, end)
    \/ \E key \in NavKeys : CI_handleKeyDown("c1", key)

ZoneSpec == ZoneInit /\ [][ZoneNext]_vars

----------------------------------------------------------------------------
(* The merged views: src/app/CollaborativeEditor.tsx 99-126 and             *)
(* src/unnamed/part_000 197-202                                             *)

\* the user rows: u1 is named "A", u2 has no user row
userName(u) == IF u = "u1" THEN <<"A">> ELSE <<>>

Unknown == <<"U", "n", "k", "n", "o", "w", "n">>

\* what document() can return in a client: undefined until the query has
\* delivered, then the document with its contributions ordered by joinedAt
Documents(c) ==
    { NotLoaded, [contributions |-> OrderByJoinedAt(contribView[c])] }

\* `[${c.user?.name || "Unknown"}]: ${c.content}`
Labeled(r) ==
    <<"[">> \o (IF userName(r.userID) # <<>> THEN userName(r.userID) ELSE Unknown)
            \o <<"]", ":", " ">> \o r.content

\* xs.map(f) for the label
Labels(xs) == [i \in 1..Len(xs) |-> Labeled(xs[i])]

\* the labeled view with the filter c.content !== ""
M_combinedTextWithLabels_noTrim(doc) ==
    IF doc = NotLoaded THEN <<>>
    ELSE LET keep(r) == r.content # <<>>
         IN  Join(Labels(SelectSeq(doc.contributions, keep)), <<" ", "|", " ">>)

\* combinedTextWithLabels 100-108
combinedTextWithLabels(doc) ==
    IF doc = NotLoaded THEN <<>>
    ELSE LET keep(r) == Trim(r.content) # <<>>
         IN  Join(Labels(SelectSeq(doc.contributions, keep)), <<" ", "|", " ">>)

\* the plain view with the filter c.content !== ""
M_plainCombinedText_noTrim(doc) ==
    IF doc = NotLoaded THEN <<>>
    ELSE LET keep(r) == r.content # <<>>
         IN  Join(Contents(SelectSeq(doc.contributions, keep)), <<" ", " ">>)

\* plainCombinedText 111-119
plainCombinedText(doc) ==
    IF doc = NotLoaded THEN <<>>
    ELSE LET keep(r) == Trim(r.content) # <<>>
         IN  Join(Contents(SelectSeq(doc.contributions, keep)), <<" ", " ">>)

\* the count of all contributions
M_contributorCount_all(doc) ==
    IF doc = NotLoaded THEN 0 ELSE Len(doc.contributions)

\* contributorCount 122-126
contributorCount(doc) ==
    IF doc = NotLoaded THEN 0
    ELSE LET keep(r) == Trim(r.content) # <<>>
         IN  Len(SelectSeq(doc.contributions, keep))

\* activeCount, src/unnamed/part_000 198-202
activeCount(doc) ==
    IF doc = NotLoaded THEN 0
    ELSE LET keep(r) == Trim(r.content) # <<>>
         IN  Len(SelectSeq(doc.contributions, keep))

EditorNext ==
    \/ \E c \in Clients : CE_sync(c)
    \/ \E c \in Clients, t \in Texts : CE_handleInput(c, t)
    \/ \E c \in Clients, h \in TimerIds : CE_timerFires(c, h)
    \/ \E c \in Clients : CE_handleClear(c)
    \/ \E c \in Clients : CE_onCleanup(c)
    \/ \E c \in Clients : TC_sync(c)
    \/ \E c \in Clients, t \in Texts, cursor \in Carets : TC_handleInput(c, t, cursor)
    \/ \E c \in Clients, h \in TimerIds : TC_timerFires(c, h)
    \/ \E c \in Clients : TC_onCleanup(c)
    \/ \E c \in Clients : CI_sync(c)
    \/ \E c \in Clients, p \in Carets, key \in Keys \cup {Backspace} : CI_handleInput(c, p, key)
    \/ \E c \in Clients, h \in TimerIds : CI_timerFires(c, h)
    \/ \E c \in Clients : CI_onCleanup(c)

EditorSpec == EditorInit /\ [][EditorNext]_vars

\* one client alone on an editor page
DebounceInit ==
    /\ InitCanvas
    /\ InitEditors
    /\ session = [c \in Clients |-> IF c = "c1" THEN "mounted" ELSE "ended"]
    /\ page \in EditorPages

DebounceSpec == DebounceInit /\ [][EditorNext]_vars

\* two clients on the shared-text editor
SharedTextInit ==
    /\ InitCanvas
    /\ InitEditors
    /\ contributions = {}
    /\ session = [c \in Clients |-> "mounted"]
    /\ page = "TrueCollaborativeInput"

SharedTextNext ==
    \/ \E c \in Clients : TC_sync(c)
    \/ \E c \in Clients, t \in Texts, cursor \in Carets : TC_handleInput(c, t, cursor)
    \/ \E c \in Clients, h \in TimerIds : TC_timerFires(c, h)
    \/ \E c \in Clients : TC_onCleanup(c)

SharedTextSpec == SharedTextInit /\ [][SharedTextNext]_vars

\* another actor's updateContent reaches the server
callUpdateContent(c, t) ==
    /\ page = "TrueCollaborativeInput"
    /\ clock < MaxClock
    /\ sharedDoc' = sharedDocument_updateContent(sharedDoc, ctxOf(c),
                                                 [content |-> t], clock).table
    /\ clock' = clock + 1
    /\ UNCHANGED <<session, userOf, page, ce, tc, ci, timers, timerSeq, contributions,
                   contribView, sharedView, nextRowId, captured, commits>>
    /\ UNCHANGED canvasVars

\* one client on the shared-text editor while another actor's updates reach
\* the server
RemoteEditInit ==
    /\ SharedTextInit
    /\ userOf = [c \in Clients |-> IF c = "c1" THEN "u1" ELSE "u2"]

RemoteEditNext ==
    \/ TC_sync("c1")
    \/ \E t \in Texts, cursor \in Carets : TC_handleInput("c1", t, cursor)
    \/ \E h \in TimerIds : TC_timerFires("c1", h)
    \/ TC_onCleanup("c1")
    \/ \E t \in Texts : callUpdateContent("c2", t)

RemoteEditSpec == RemoteEditInit /\ [][RemoteEditNext]_vars

\* two users on the shared-text editor, each typing at the end of its text
ConvergeNext ==
    \/ \E c \in Clients : TC_sync(c)
    \/ \E c \in Clients, t \in Texts : TC_handleInput(c, t, Len(t))
    \/ \E c \in Clients, h \in TimerIds : TC_timerFires(c, h)
    \/ \E c \in Clients : TC_onCleanup(c)

ConvergeSpec == RemoteEditInit /\ [][ConvergeNext]_vars

----------------------------------------------------------------------------
(* Properties of the debounced editors *)

\* the timers of a client's editor that are pending
pendingOf(tms, c) == { t \in tms : t.client = c }

\* C6: in each editor an instance has at most one pending timer, which holds
\* the payload of the last call; a commit is issued only by that timer, it
\* carries the payload of the last call, and it leaves no timer pending, so
\* the calls made before it fires yield exactly one commit
C6_DebounceCoalescing ==
    [][ \A c \in Clients :
          /\ Cardinality(pendingOf(timers', c)) <= 1
          /\ \A t \in pendingOf(timers', c) : t.content = captured'[c][Len(captured'[c])]
          /\ commits'[c] # commits[c]
             => /\ pendingOf(timers, c) # {}
                /\ pendingOf(timers', c) = {}
                /\ commits'[c] = Append(commits[c], captured[c][Len(captured[c])]) ]_vars

\* C6 witness: two calls with different payloads have produced one commit,
\* with the payload of the second, and nothing is pending
C6_Witness ==
    \E c \in Clients :
        /\ Len(captured[c]) = 2
        /\ captured[c][1] # captured[c][2]
        /\ commits[c] = <<captured[c][2]>>
        /\ pendingOf(timers, c) = {}

\* C7: when an editor is unmounted while a timer is pending, that step issues
\* a commit with the payload the timer holds
C7_FlushOnTeardown ==
    [][ \A c \in Clients :
          (session[c] = "mounted" /\ session'[c] = "ended" /\ pendingOf(timers, c) # {})
          => \E t \in pendingOf(timers, c) : commits'[c] = Append(commits[c], t.content) ]_vars

----------------------------------------------------------------------------
(* Properties of the canvas *)

\* the square a transaction names, before and after the transaction of a step
TxSquare == squares[last'.args.id]

\* the actor the transaction of a step runs as
TxUser == userOf[last'.client]

\* C1: every square's draggedBy is null or one actor id, and a startDrag by
\* an actor on a square that another actor holds throws and leaves the table,
\* so also draggedBy, as it was
C1_AtMostOneHolder ==
    [][ /\ \A s \in SquareIds :
            squares'[s] # Absent => squares'[s].draggedBy \in Users \cup {NULL}
        /\ (last'.name = "startDrag" /\ TxSquare # Absent
              /\ TxSquare.draggedBy \notin {NULL, TxUser})
           => (last'.outcome = "throw" /\ squares' = squares) ]_vars

\* C1 witness: a startDrag was denied because another actor holds the square
C1_Witness ==
    /\ last.name = "startDrag"
    /\ last.outcome = "throw"
    /\ last.error = "Square is being dragged by another user"
    /\ squares[last.args.id].draggedBy \in Users \ {userOf[last.client]}

\* C2: an endDrag by the holder of the lock writes the final x and y and
\* draggedBy = null in one update of the row, in one step
C2_EndDragOneUpdate ==
    [][ (last'.name = "endDrag" /\ TxSquare # Absent /\ TxSquare.draggedBy = TxUser)
        => /\ last'.outcome = "ok"
           /\ last'.writes = 1
           /\ squares' = [squares EXCEPT ![last'.args.id] =
                  [TxSquare EXCEPT !.x = last'.args.x, !.y = last'.args.y,
                                   !.draggedBy = NULL]] ]_vars

\* C2 witness: the holder ended a drag that moved the square
C2_Witness ==
    /\ last.name = "endDrag"
    /\ last.outcome = "ok"
    /\ squares[last.args.id].draggedBy = NULL
    /\ squares[last.args.id].x = 16
    /\ squares[last.args.id].y = 10

\* C3: an endDrag by an actor who does not hold the lock returns without
\* throwing and without writing: the table is unchanged
C3_EndDragByNonHolderNoOp ==
    [][ (last'.name = "endDrag" /\ TxUser # Anon /\ TxSquare # Absent
              /\ TxSquare.draggedBy # TxUser)
        => (last'.outcome = "return" /\ last'.writes = 0 /\ squares' = squares) ]_vars

\* C3 witness: an endDrag returned while another actor holds the square and
\* the caller's final position differs from the stored one
C3_Witness ==
    /\ last.name = "endDrag"
    /\ last.outcome = "return"
    /\ squares[last.args.id] # Absent
    /\ squares[last.args.id].draggedBy \in Users \ {userOf[last.client]}
    /\ squares[last.args.id].x # last.args.x

\* C4: a startDrag by the actor who already holds the lock is granted and
\* has no side effect: the table is unchanged and no write is issued
C4_ReacquireNoWrite ==
    [][ (last'.name = "startDrag" /\ TxSquare # Absent /\ TxSquare.draggedBy = TxUser)
        => (last'.outcome # "throw" /\ squares' = squares /\ last'.writes = 0) ]_vars

\* C5: a delete by an actor who is not the owner throws and removes nothing,
\* and a square leaves the table only by a delete that its owner issued
C5_OwnerOnlyDelete ==
    [][ /\ (last'.name = "delete" /\ TxSquare # Absent /\ TxSquare.ownerID # TxUser)
           => (last'.outcome = "throw" /\ squares' = squares)
        /\ \A s \in SquareIds :
             (squares[s] # Absent /\ squares'[s] = Absent)
             => (last'.name = "delete" /\ last'.args.id = s
                  /\ TxUser = squares[s].ownerID) ]_vars

\* C5 witness: a delete by a logged-in actor who is not the owner was refused
C5_Witness ==
    /\ last.name = "delete"
    /\ last.outcome = "throw"
    /\ last.error = "Only the owner can delete a square"
    /\ squares[last.args.id] # Absent
    /\ squares[last.args.id].ownerID # userOf[last.client]

\* C8: when a session ends (unmount or disconnect) while its actor holds the
\* lock of the square it drags, that step releases the lock and stores the
\* last local position
C8_SessionEndReleasesLock ==
    [][ \A c \in Clients :
          (session[c] = "mounted" /\ session'[c] # "mounted" /\ drag[c].id # NoId
              /\ squares[drag[c].id] # Absent
              /\ squares[drag[c].id].draggedBy = userOf[c])
          => /\ squares'[drag[c].id].draggedBy = NULL
             /\ squares'[drag[c].id].x = Round(drag[c].position.x)
             /\ squares'[drag[c].id].y = Round(drag[c].position.y) ]_vars

\* C9: a square is locked only while a mounted session of the locking actor
\* has a drag of that square in progress
C9_LockOnlyDuringDrag ==
    \A s \in SquareIds :
        (squares[s] # Absent /\ squares[s].draggedBy # NULL)
        => \E c \in Clients :
              /\ session[c] = "mounted"
              /\ userOf[c] = squares[s].draggedBy
              /\ drag[c].id = s

\* C10: a client whose startDrag was denied holds no drag state for the square
C10_DeniedHoldsNoDrag ==
    (last.name = "startDrag" /\ last.outcome = "throw")
    => drag[last.client].id # last.args.id

\* C11: a client submits startDrag only when it has no drag in progress, and
\* that step starts the drag; it submits endDrag only for the drag in
\* progress, and that step clears drag.id; drag.id is cleared by no other
\* step. So a drag has one startDrag, then one endDrag, and a later mouse-up,
\* mouse-leave or unmount finds drag.id cleared and submits nothing
C11_OneStartOneEndPerDrag ==
    [][ \A c \in Clients :
          /\ (last'.name = "startDrag" /\ last'.client = c)
             => (drag[c].id = NoId /\ drag'[c].id = last'.args.id)
          /\ (last'.name = "endDrag" /\ last'.client = c)
             => (drag[c].id = last'.args.id /\ drag'[c].id = NoId)
          /\ (drag[c].id # NoId /\ drag'[c].id # drag[c].id)
             => (last'.name = "endDrag" /\ last'.client = c) ]_vars

----------------------------------------------------------------------------
(* Properties of the shared-text editor *)

\* the text typed after base b in text l, when l extends b
TypedAfter(b, l) == SubSeq(l, Len(b) + 1, Len(l))

\* C13: when a remote content reaches a client that shows text it typed after
\* the content it last received and has not committed yet (its timer is
\* pending), the text it shows after that step still holds what it typed
C13_UnsentKeystrokesKept ==
    [][ \A c \in Clients :
          ( /\ tc[c].initialized
            /\ sharedView[c] # NotLoaded
            /\ sharedView'[c].content # sharedView[c].content
            /\ commits'[c] = commits[c]
            /\ \E t \in pendingOf(timers, c) : t.content = tc[c].value
            /\ Len(tc[c].value) > Len(sharedView[c].content)
            /\ Substring0(tc[c].value, Len(sharedView[c].content)) = sharedView[c].content )
          => Includes(tc'[c].value, TypedAfter(sharedView[c].content, tc[c].value)) ]_vars

\* C14: when a document reaches an initialized client that is not editing (no
\* timer pending), the text it shows after the step is the document's
\* content, and when that content equals the text it showed, the textarea
\* (text and selection) is left as it was
C14_RemoteReplacesWhenIdle ==
    [][ \A c \in Clients :
          ( /\ tc[c].initialized
            /\ session'[c] = "mounted"
            /\ pendingOf(timers, c) = {}
            /\ sharedView'[c] # sharedView[c] )
          => /\ tc'[c].value = sharedView'[c].content
             /\ sharedView'[c].content = tc[c].value => tc'[c] = tc[c] ]_vars

\* C14 witness: a client that typed and committed "ab" with the caret at 0,
\* and has typed nothing since, shows the shorter content "a" of its replica
C14_Witness ==
    \E c \in Clients :
        /\ session[c] = "mounted"
        /\ tc[c].initialized
        /\ pendingOf(timers, c) = {}
        /\ captured[c] = << <<"a", "b">> >>
        /\ commits[c] = captured[c]
        /\ tc[c].selectionStart = 0
        /\ tc[c].value = <<"a">>
        /\ sharedView[c].content = <<"a">>

\* C15: when the sync effect replaces the text of an initialized client, the
\* new cursor is the old cursor plus (new length - old length) clamped to
\* 0..new length, and selectionStart = selectionEnd = that cursor
C15_CursorShiftClamped ==
    [][ \A c \in Clients :
          ( /\ tc[c].initialized
            /\ captured'[c] = captured[c]
            /\ tc'[c].value # tc[c].value )
          => LET shifted == tc[c].selectionStart + Len(tc'[c].value) - Len(tc[c].value)
             IN  /\ tc'[c].selectionStart = Max(0, Min(shifted, Len(tc'[c].value)))
                 /\ tc'[c].selectionStart >= 0
                 /\ tc'[c].selectionStart <= Len(tc'[c].value)
                 /\ tc'[c].selectionEnd = tc'[c].selectionStart ]_vars

\* C15 witness: a client that typed "a" with the caret at 0 shows the longer
\* remote content "ab" with the caret shifted to 1
C15_Witness ==
    \E c \in Clients :
        /\ tc[c].initialized
        /\ captured[c] = << <<"a">> >>
        /\ tc[c].value = <<"a", "b">>
        /\ tc[c].selectionStart = 1
        /\ tc[c].selectionEnd = 1

----------------------------------------------------------------------------
(* Properties of the zone-partitioned input *)

\* the input events a client's textarea can deliver in the current state:
\* a key pressed with the caret at p
InputEvents(c) ==
    { ev \in [p : Carets, key : Keys \cup {Backspace}] :
        /\ page = "CollaborativeInput"
        /\ session[c] = "mounted"
        /\ userOf[c] # Anon
        /\ ev.p <= Len(ci[c].value)
        /\ ev.key = Backspace => ev.p >= 1 }

\* C16: an input event that leaves the caret at or past the start of the
\* others' segment is rejected by handleInput: my text stays, no sync is
\* scheduled, the field is reset to displayValue and the caret is set to the
\* length of my text
C16_EditInOthersZoneRejected ==
    \A c \in Clients : \A ev \in InputEvents(c) :
        LET others == othersText(contribView[c], c)
            e == Edited(ci[c].value, ev.p, ev.key)
            r == handleInput(ci[c].myText, others, e.value, e.cursor)
        IN  (others # <<>> /\ e.cursor >= Len(e.value) - Len(others))
            => /\ ~r.accepted
               /\ r.myText = ci[c].myText
               /\ r.value = displayValue(ci[c].myText, others)
               /\ r.selectionStart = Len(ci[c].myText)
               /\ r.selectionEnd = Len(ci[c].myText)

\* C16 witness: a client with my text "a" and others' text "b" that has had
\* no edit accepted shows "a  |  b" with the caret at 1, the end of my text
C16_Witness ==
    \E c \in Clients :
        /\ page = "CollaborativeInput"
        /\ session[c] = "mounted"
        /\ ci[c].myText = <<"a">>
        /\ othersText(contribView[c], c) = <<"b">>
        /\ ci[c].value = <<"a">> \o SEPARATOR \o <<"b">>
        /\ ci[c].selectionStart = 1
        /\ ci[c].selectionEnd = 1
        /\ captured[c] = <<>>
        /\ pendingOf(timers, c) = {}

\* C17: for an input event that handleInput accepts, the new my text is my
\* text with the key applied when the caret was in my text, and my text as it
\* was otherwise: nothing of the separator or of the others' text is taken
\* and nothing of my text is dropped
C17_NoBleedAcrossBoundary ==
    \A c \in Clients : \A ev \in InputEvents(c) :
        LET others == othersText(contribView[c], c)
            mine == ci[c].myText
            e == Edited(ci[c].value, ev.p, ev.key)
            r == handleInput(mine, others, e.value, e.cursor)
        IN  (ci[c].value = displayValue(mine, others) /\ r.accepted)
            => r.myText = IF ev.p <= Len(mine) THEN Edited(mine, ev.p, ev.key).value
                          ELSE mine

----------------------------------------------------------------------------
(* Properties of the merged views *)

\* the contributions of a set of rows that hold more than whitespace
Active(rows) == { r \in rows : \E i \in 1..Len(r.content) : r.content[i] # " " }

\* the rows of a set in the one order that has joinedAt ascending
Ascending(rows) ==
    CHOOSE es \in [1..Cardinality(rows) -> rows] :
        /\ \A r \in rows : \E i \in 1..Cardinality(rows) : es[i] = r
        /\ \A i, j \in 1..Cardinality(rows) : i < j => es[i].joinedAt <= es[j].joinedAt

\* the rows a document holds, none when it is absent
RowsOf(doc) ==
    IF doc = NotLoaded THEN {}
    ELSE { doc.contributions[i] : i \in 1..Len(doc.contributions) }

\* C18: the labeled view is made of the contributions that hold more than
\* whitespace, in joinedAt order, each as "[name]: content", joined by " | ";
\* it is empty when there is none
C18_LabeledMergeView ==
    \A c \in Clients : \A doc \in Documents(c) :
        LET es == Ascending(Active(RowsOf(doc)))
        IN  /\ combinedTextWithLabels(doc) =
                   Join([i \in 1..Len(es) |->
                            <<"[">> \o (IF es[i].userID = "u1" THEN <<"A">> ELSE Unknown)
                                    \o <<"]", ":", " ">> \o es[i].content],
                        <<" ", "|", " ">>)
            /\ Active(RowsOf(doc)) = {} => combinedTextWithLabels(doc) = <<>>

\* C18 witness: the editor shows "[Unknown]: b | [A]: a" for the later
\* contribution "a" of u1 and the earlier contribution "b" of u2
C18_Witness ==
    \E c \in Clients :
        /\ page = "CollaborativeEditor"
        /\ session[c] = "mounted"
        /\ Cardinality(contribView[c]) = 2
        /\ combinedTextWithLabels([contributions |-> OrderByJoinedAt(contribView[c])]) =
              <<"[">> \o Unknown \o <<"]", ":", " ", "b", " ", "|", " ",
                                       "[", "A", "]", ":", " ", "a">>

\* C19: the plain view is made of the contents of the same contributions in
\* the same order as the labeled view, joined by two spaces
C19_PlainMergeView ==
    \A c \in Clients : \A doc \in Documents(c) :
        LET es == Ascending(Active(RowsOf(doc)))
        IN  /\ plainCombinedText(doc) =
                   Join([i \in 1..Len(es) |-> es[i].content], <<" ", " ">>)
            /\ combinedTextWithLabels(doc) = Join(Labels(es), <<" ", "|", " ">>)

\* C19 witness: the editor shows the plain view "a" of a document with the
\* contribution "a" and a contribution of whitespace
C19_Witness ==
    \E c \in Clients :
        /\ page = "CollaborativeEditor"
        /\ session[c] = "mounted"
        /\ \E r \in contribView[c] : r.content = <<" ">>
        /\ plainCombinedText([contributions |-> OrderByJoinedAt(contribView[c])]) = <<"a">>

\* C20: contributorCount and activeCount are the number of contributions
\* that hold more than whitespace, 0 for an absent document, and the number
\* of entries of the labeled view
C20_ActiveContributorCount ==
    \A c \in Clients : \A doc \in Documents(c) :
        /\ contributorCount(doc) = Cardinality(Active(RowsOf(doc)))
        /\ activeCount(doc) = Cardinality(Active(RowsOf(doc)))
        /\ doc = NotLoaded => (contributorCount(doc) = 0 /\ activeCount(doc) = 0)
        /\ combinedTextWithLabels(doc) =
              Join(Labels(Ascending(Active(RowsOf(doc)))), <<" ", "|", " ">>)
        /\ contributorCount(doc) = Len(Ascending(Active(RowsOf(doc))))

\* C20 witness: the zone-partitioned input counts 1 contributor for a
\* document with two contributions, one of them empty or whitespace
C20_Witness ==
    \E c \in Clients :
        /\ page = "CollaborativeInput"
        /\ session[c] = "mounted"
        /\ Cardinality(contribView[c]) = 2
        /\ activeCount([contributions |-> OrderByJoinedAt(contribView[c])]) = 1


----------------------------------------------------------------------------
(* Contribution rows *)

\* the rows of one actor in one document
RowsFor(rows, d, u) == { r \in rows : r.documentId = d /\ r.userID = u }

\* the contribution transaction of this step, if it is one
TxUpsert == last' # last /\ last'.name = "contribution.upsert"

TxClear == last' # last /\ last'.name = "contribution.clear"

\* every stored row is still stored, with its id, document, actor and joinedAt
RowsKept ==
    \A r \in contributions :
        \E k \in contributions' :
            /\ k.id = r.id
            /\ k.documentId = r.documentId
            /\ k.userID = r.userID
            /\ k.joinedAt = r.joinedAt

\* C21: after any sequence of contribution.upsert and contribution.clear
\* transactions by any actors there is at most one Contribution row for each
\* (documentId, actor) pair
C21_OneRowPerActorAndDocument ==
    \A d \in DocIds, u \in Users : Cardinality(RowsFor(contributions, d, u)) <= 1

\* an actor who already had a row in a document wrote to it again, with another
\* id, while a second actor has a row in the same document
C21_Witness ==
    /\ last.name = "contribution.upsert"
    /\ last.outcome = "ok"
    /\ \E r \in RowsFor(contributions, last.args.documentId, userOf[last.client]) :
           /\ r.joinedAt < last.now
           /\ r.updatedAt = last.now
           /\ r.id # last.args.id
    /\ \E r \in contributions : /\ r.documentId = last.args.documentId
                                /\ r.userID # userOf[last.client]

\* C22: a Contribution is never deleted, only emptied: contribution.clear on an
\* existing contribution sets its content to the empty string and keeps the row
\* (same id, documentId, userID, joinedAt); by an actor with no contribution for
\* the document it changes nothing; no operation removes a contribution row
C22_ClearEmptiesNeverDeletes ==
    [][ /\ RowsKept
        /\ TxClear /\ userOf[last'.client] # Anon =>
             LET mine == RowsFor(contributions, last'.args.documentId,
                                 userOf[last'.client])
             IN  contributions' =
                     (contributions \ mine) \cup
                     { [r EXCEPT !.content = <<>>, !.updatedAt = last'.now] : r \in mine }
      ]_vars

\* a clear has emptied a row that was written earlier
C22_Witness ==
    /\ last.name = "contribution.clear"
    /\ last.outcome = "ok"
    /\ \E r \in RowsFor(contributions, last.args.documentId, userOf[last.client]) :
           /\ r.content = <<>>
           /\ r.updatedAt = last.now
           /\ r.joinedAt < last.now

\* C30: contribution.upsert on an actor's first write for a document inserts a
\* row with userID = caller, the given id (when no row has that primary key) and
\* joinedAt = updatedAt = now; on every later write it updates only content and
\* updatedAt of the existing row and ignores the id argument, so that the id,
\* documentId, userID and joinedAt of a contribution never change
C30_UpsertFrame ==
    [][ /\ RowsKept
        /\ TxUpsert /\ userOf[last'.client] # Anon =>
             LET a == last'.args
                 u == userOf[last'.client]
                 mine == RowsFor(contributions, a.documentId, u)
             IN  IF mine # {}
                 THEN contributions' =
                          (contributions \ mine) \cup
                          { [r EXCEPT !.content = a.content, !.updatedAt = last'.now]
                            : r \in mine }
                 ELSE (\A r \in contributions : r.id # a.id) =>
                          contributions' = contributions \cup
                              { [id |-> a.id, documentId |-> a.documentId,
                                 userID |-> u, content |-> a.content,
                                 updatedAt |-> last'.now, joinedAt |-> last'.now] }
      ]_vars

\* a later write carried a different id and new content: the row kept its id
C30_Witness ==
    /\ last.name = "contribution.upsert"
    /\ last.outcome = "ok"
    /\ last.args.content # <<>>
    /\ \E r \in RowsFor(contributions, last.args.documentId, userOf[last.client]) :
           /\ r.id # last.args.id
           /\ r.content = last.args.content
           /\ r.joinedAt < r.updatedAt


----------------------------------------------------------------------------
(* Stale resources and authorization *)

\* the canvasSquare transaction of this step, if it is one
TxCanvas(names) == last' # last /\ last'.name \in names

\* C23: startDrag, updatePosition, endDrag and delete submitted by a logged-in
\* actor for a square id that is not in the table (for example deleted by its
\* owner while another actor is mid-drag) return without throwing and change
\* no state
C23_StaleResourceNoOp ==
    [][ /\ TxCanvas({"startDrag", "updatePosition", "endDrag", "delete"})
        /\ userOf[last'.client] # Anon
        /\ squares[last'.args.id] = Absent
        => /\ last'.outcome = "return"
           /\ last'.writes = 0
           /\ squares' = squares
      ]_vars

\* the owner deleted the square while the other actor was dragging it; the
\* dragger's endDrag then returned
C23_Witness ==
    /\ last.name = "endDrag"
    /\ last.client = "c1"
    /\ last.outcome = "return"
    /\ drag["c1"].id = last.args.id
    /\ squares[last.args.id] = Absent
    /\ userOf["c2"] \notin {Anon, userOf["c1"]}


\* the tables the mutators write
Tables == <<squares, message, collaborative_document, contributions, sharedDoc,
            user_cursor>>

\* C24: an unauthenticated actor can perform no write: every mutator, invoked
\* without a logged-in context, fails with "Must be logged in" before it
\* modifies any table
C24_AnonymousWritesNothing ==
    [][ last' # last /\ last'.name # "none" /\ userOf[last'.client] = Anon
        => /\ last'.outcome = "throw"
           /\ last'.error = "Must be logged in"
           /\ Tables' = Tables
      ]_vars


\* C25: a client whose userID is "anon" never submits a mutation and never
\* arms a debounce timer, whatever UI event occurs (add square, mouse-down on a
\* square, delete click, text input, clear)
C25_AnonymousSubmitsNothing ==
    [][ /\ last' # last /\ last'.name # "none" => userOf[last'.client] # Anon
        /\ \A t \in timers' \ timers : userOf[t.client] # Anon
      ]_vars


----------------------------------------------------------------------------
(* Order of the debounced commits *)

\* the commits are payloads of captures at strictly increasing positions
InCaptureOrder(cm, cp) ==
    \E f \in [1..Len(cm) -> 1..Len(cp)] :
        /\ \A i \in 1..Len(cm) : cp[f[i]] = cm[i]
        /\ \A i, j \in 1..Len(cm) : i < j => f[i] < f[j]

\* C26: within one client the debounced commits of an editor instance are
\* issued in the order their payloads were captured: a commit issued before
\* another carries the payload of an earlier input event
C26_CommitsInCaptureOrder ==
    \A c \in Clients : InCaptureOrder(commits[c], captured[c])

\* two input events with different payloads were each committed, in order
C26_Witness ==
    \E c \in Clients :
        /\ Len(commits[c]) = 2
        /\ commits[c][1] # commits[c][2]
        /\ commits[c] = captured[c]


----------------------------------------------------------------------------
(* Moving a square *)

\* C27: canvasSquare.updatePosition changes x and y of a square only when the
\* caller is the current lock holder (draggedBy = caller); invoked by another
\* logged-in actor, including when the square is unlocked, it returns and
\* leaves the square unchanged; it never changes draggedBy or ownerID
C27_UpdatePositionByHolderOnly ==
    [][ TxCanvas({"updatePosition"}) /\ userOf[last'.client] # Anon =>
          LET a == last'.args
              sq == squares[a.id]
          IN  IF sq # Absent /\ sq.draggedBy = userOf[last'.client]
              THEN squares' = [squares EXCEPT ![a.id].x = a.x, ![a.id].y = a.y]
              ELSE squares' = squares /\ last'.outcome = "return"
      ]_vars

\* the holder, who is not the owner, has moved the square it drags
C27_Witness ==
    /\ last.name = "updatePosition"
    /\ last.outcome = "ok"
    /\ squares[last.args.id] # Absent
    /\ squares[last.args.id].draggedBy = userOf[last.client]
    /\ squares[last.args.id].ownerID # userOf[last.client]
    /\ squares[last.args.id].x = last.args.x
    /\ squares[last.args.id].y = last.args.y


----------------------------------------------------------------------------
(* The canvas handlers *)

\* the client's replica shows the square locked by another actor
LockedByOther(c, s) ==
    /\ view[c][s] # Absent
    /\ view[c][s].draggedBy # NULL
    /\ view[c][s].draggedBy # userOf[c]

\* C28: a mouse-down on a square that is locked by another actor changes
\* nothing on the client: while the client sees the square locked by another
\* actor no step of the client makes it the dragged square or sets a drag
\* offset for it, and the client submits no startDrag for it
C28_LockedSquareRefusesMouseDown ==
    [][ \A s \in SquareIds :
          LockedByOther("c1", s) =>
            /\ ~(/\ drag'["c1"].id = s
                 /\ drag["c1"].id # s \/ drag'["c1"].offset # drag["c1"].offset)
            /\ ~(/\ last' # last
                 /\ last'.name = "startDrag"
                 /\ last'.client = "c1"
                 /\ last'.args.id = s)
      ]_vars

\* the client sees a square locked by the other actor, holds no drag and has
\* submitted nothing: a mouse-down on the square leaves it in this state
C28_Witness ==
    \E s \in SquareIds :
        /\ LockedByOther("c1", s)
        /\ squares[s] # Absent
        /\ squares[s].draggedBy = userOf["c2"]
        /\ drag["c1"].id = NoId
        /\ session["c1"] = "mounted"
        /\ last = NoTx


\* a position inside a canvas with bounding rectangle rect (half pixels)
InCanvas(p, rect) ==
    /\ 0 <= p.x /\ p.x <= Max(0, rect.width - Px(80))
    /\ 0 <= p.y /\ p.y <= Max(0, rect.height - Px(80))

\* a step that moves the buffer of the square the client drags to a position
\* other than the one a mouse-down takes from the replica
BufferMoved(c) ==
    /\ drag[c].id # NoId
    /\ drag'[c].id = drag[c].id
    /\ drag'[c].position # drag[c].position
    /\ \/ view[c][drag[c].id] = Absent
       \/ drag'[c].position # [x |-> Px(view[c][drag[c].id].x),
                               y |-> Px(view[c][drag[c].id].y)]

\* C29: during a drag a mouse move updates only the local buffer and submits
\* no mutation; the buffered position is clamped to the canvas for every mouse
\* position, 0 <= x <= max(0, canvasWidth - 80) and 0 <= y <=
\* max(0, canvasHeight - 80); with no active drag the buffer does not change
C29_MouseMoveLocalAndClamped ==
    [][ /\ BufferMoved("c1") =>
             /\ last' = NoTx
             /\ squares' = squares
             /\ view' = view
             /\ drag'["c1"].offset = drag["c1"].offset
             /\ \E rect \in CanvasRects : InCanvas(drag'["c1"].position, rect)
        /\ drag["c1"].id # NoId =>
             \A e \in MousePoints, rect \in CanvasRects :
                 InCanvas(clampedPosition(drag["c1"], e, rect), rect)
        /\ drag["c1"].id = NoId /\ drag'["c1"].id = NoId => drag'["c1"] = drag["c1"]
      ]_vars

\* the client drags a square whose buffer a mouse move has put at the canvas
\* edge, away from the position the server holds
C29_Witness ==
    \E s \in SquareIds, rect \in CanvasRects :
        /\ drag["c1"].id = s
        /\ squares[s] # Absent
        /\ squares[s].draggedBy = userOf["c1"]
        /\ rect.height >= Px(80)
        /\ drag["c1"].position.y = rect.height - Px(80)
        /\ drag["c1"].position.y # Px(squares[s].y)
        /\ last = NoTx


----------------------------------------------------------------------------
(* Creation and ownership of squares *)

\* C31: canvasSquare.create creates the square unlocked (draggedBy = null),
\* owned by the calling actor and with size 80 x 80; the ownerID of a square
\* is never changed by startDrag, updatePosition or endDrag
C31_CreateUnlockedOwnedByCaller ==
    [][ /\ TxCanvas({"create"}) /\ userOf[last'.client] # Anon =>
             LET a == last'.args IN
             squares' = [squares EXCEPT ![a.id] =
                            [ownerID |-> userOf[last'.client], x |-> a.x, y |-> a.y,
                             width |-> 80, height |-> 80, draggedBy |-> NULL]]
        /\ \A s \in SquareIds :
             squares[s] # Absent /\ squares'[s] # Absent
             => squares'[s].ownerID = squares[s].ownerID
      ]_vars

\* a square has just been created by a logged-in actor
C31_Witness ==
    /\ last.name = "create"
    /\ last.outcome = "ok"
    /\ squares[last.args.id] # Absent
    /\ squares[last.args.id].ownerID = userOf[last.client]
    /\ squares[last.args.id].draggedBy = NULL
    /\ squares[last.args.id].width = 80
    /\ squares[last.args.id].height = 80


----------------------------------------------------------------------------
(* Clear, commits and initialization in the editors *)

\* the stored contribution of the actor at client c is empty or absent
StoredEmpty(rows, c) ==
    \A r \in RowsFor(rows, ThisDoc, userOf[c]) : r.content = <<>>

\* C32: after Clear in CollaborativeEditor, with nothing typed afterwards, the
\* stored contribution content is empty and stays empty: from a state in which
\* the editor shows the empty text and the stored content is empty, no step
\* other than an input event makes the stored content non-empty, also when a
\* debounced commit of earlier text is still pending
C32_ClearedStaysEmpty ==
    [][ \A c \in Clients :
          /\ page = "CollaborativeEditor"
          /\ session[c] = "mounted"
          /\ ce[c].localContent = <<>>
          /\ StoredEmpty(contributions, c)
          /\ captured'[c] = captured[c]
          => StoredEmpty(contributions', c)
      ]_vars


\* C33: when a debounced commit fires in the shared-text editor, the content
\* it commits is the text the client's textarea shows at that moment: a commit
\* never writes back text that a remote update has since replaced on screen
C33_CommitIsDisplayedText ==
    [][ \A c \in Clients :
          page = "TrueCollaborativeInput" /\ commits'[c] # commits[c]
          => commits'[c] = Append(commits[c], tc[c].value)
      ]_vars


\* the step is a press of Clear in the CollaborativeEditor of client c
ClearPressed(c) ==
    /\ page = "CollaborativeEditor"
    /\ ce'[c].localContent = <<>>
    /\ clock' = clock + 1
    /\ commits'[c] = commits[c]

\* C34: in CollaborativeEditor and CollaborativeInput the local text is
\* initialized from the stored contribution only before the user has typed:
\* once the user has entered text, only an input event (or Clear) changes the
\* local text, and no arrival of the actor's own contribution overwrites it
C34_NoInitAfterTyping ==
    [][ \A c \in Clients :
          /\ \E i \in 1..Len(captured[c]) : captured[c][i] # <<>>
          /\ captured'[c] = captured[c]
          /\ ~ClearPressed(c)
          => /\ ce'[c].localContent = ce[c].localContent
             /\ ci'[c].myText = ci[c].myText
      ]_vars


----------------------------------------------------------------------------
(* The zones of CollaborativeInput *)

\* C35: the old full value handleInput reconstructs equals the value the
\* field displays (displayValue) for every combination of my text and others'
\* text, also for empty my text with non-empty others' text; so an actor
\* whose own text is empty can type a character at position 0 and have it
\* accepted as their text
C35_OldValueIsDisplayValue ==
    \A c \in Clients :
        (page = "CollaborativeInput" /\ session[c] = "mounted" /\ userOf[c] # Anon) =>
            LET mine == ci[c].myText
                others == othersText(contribView[c], c)
            IN  /\ oldFullValue(mine, others) = displayValue(mine, others)
                /\ mine = <<>> =>
                     \A key \in Keys :
                         LET e == Typed(ci[c].value, 0, key)
                             r == handleInput(mine, others, e.value, e.cursor)
                         IN  r.accepted /\ r.myText = <<key>>


----------------------------------------------------------------------------
(* One actor in two sessions; deleting a dragged square *)

\* C36: every drag session whose startDrag was granted has its final position
\* applied when it ends, also when the same actor drags the same square from
\* two client sessions at once. With one actor in both sessions every
\* startDrag is granted, so the endDrag that ends a session's drag of a stored
\* square must write the session's final position
C36_GrantedDragAppliesFinalPosition ==
    [][ /\ userOf["c1"] = userOf["c2"]
        /\ TxCanvas({"endDrag"})
        /\ drag[last'.client].id = last'.args.id
        /\ squares[last'.args.id] # Absent
        => /\ last'.outcome = "ok"
           /\ squares'[last'.args.id].x = last'.args.x
           /\ squares'[last'.args.id].y = last'.args.y
      ]_vars


\* C37: a square is never deleted while it is locked by an actor other than
\* its owner: no step removes a square that another actor is dragging, and a
\* client shows the delete button only on a square it owns that is not being
\* dragged
C37_NoDeleteWhileDraggedByOther ==
    [][ /\ \A s \in SquareIds :
             /\ squares[s] # Absent
             /\ squares[s].draggedBy # NULL
             /\ squares[s].draggedBy # squares[s].ownerID
             => squares'[s] # Absent
        /\ \A c \in Clients, s \in SquareIds :
             session[c] = "mounted" /\ view[c][s] # Absent /\ deleteBtnShown(c, s)
             => /\ view[c][s].ownerID = userOf[c]
                /\ view[c][s].draggedBy = NULL
      ]_vars


----------------------------------------------------------------------------
(* Convergence of the shared text *)

\* every debounce timer has fired and every commit has reached every client
Quiescent ==
    /\ timers = {}
    /\ \A c \in Clients : session[c] = "mounted" => sharedView[c] = sharedDoc

\* C38: once every client's debounce timer has fired and every commit has
\* propagated, with no typing under way, the text every initialized client
\* displays is the stored content of the shared document, so all clients
\* display the same text
C38_SharedTextConverges ==
    (page = "TrueCollaborativeInput" /\ Quiescent) =>
        \A c \in Clients :
            session[c] = "mounted" /\ tc[c].initialized => tc[c].value = sharedDoc.content

\* both clients have typed and committed different texts; after the last
\* commit has propagated both show the stored text
C38_Witness ==
    /\ page = "TrueCollaborativeInput"
    /\ Quiescent
    /\ \A c \in Clients :
           /\ session[c] = "mounted"
           /\ tc[c].initialized
           /\ commits[c] # <<>>
           /\ tc[c].value = sharedDoc.content
    /\ commits["c1"] # commits["c2"]
    /\ sharedDoc.content # <<>>


----------------------------------------------------------------------------
(* The selection in the zone-partitioned input *)

\* the step in which client c's textarea handles a select or click event
SelectStep(c) ==
    ci'[c].eventSeq # ci[c].eventSeq /\ ci'[c].event.type = "select"

\* the step in which client c's textarea handles a keydown event
KeyStep(c) ==
    ci'[c].eventSeq # ci[c].eventSeq /\ ci'[c].event.type = "keydown"

\* C39: after handleSelect has run, selectionStart and selectionEnd are at
\* most the length of my text; and a keydown of ArrowRight, End or Delete
\* with the cursor at or past the end of my text is suppressed: its default
\* is prevented and the textarea is left as it was
C39_SelectionStaysInMyZone ==
    [][ \A c \in Clients :
          /\ SelectStep(c) =>
                 /\ ci'[c].selectionStart <= Len(ci'[c].myText)
                 /\ ci'[c].selectionEnd <= Len(ci'[c].myText)
          /\ ( /\ KeyStep(c)
               /\ ci'[c].event.key \in {ArrowRight, End, Delete}
               /\ ci[c].selectionStart >= Len(ci[c].myText) )
             => /\ ci'[c].event.defaultPrevented
                /\ ci'[c].value = ci[c].value
                /\ ci'[c].myText = ci[c].myText
                /\ ci'[c].selectionStart = ci[c].selectionStart
                /\ ci'[c].selectionEnd = ci[c].selectionEnd ]_vars

\* the actor selected a range that ran from its own text into the text of
\* the other actor, and handleSelect has cut it back to its own text
C39_Witness ==
    \E c \in Clients :
        /\ page = "CollaborativeInput"
        /\ ci[c].event.type = "select"
        /\ ci[c].myText # <<>>
        /\ Len(ci[c].value) > Len(ci[c].myText)
        /\ ci[c].event.selStart < Len(ci[c].myText)
        /\ ci[c].event.selEnd > Len(ci[c].myText)
        /\ ci[c].selectionStart = ci[c].event.selStart
        /\ ci[c].selectionEnd = Len(ci[c].myText)

====
